---- MODULE Spec2Model ----
(***************************************************************************)
(* Suffix automaton of algorithms/string/suffix_automaton.py, and the      *)
(* data structures and string algorithms of the repository that the        *)
(* properties below are about.  Each has its own variables and its own     *)
(* specification; the variables of the others rest while it runs.          *)
(*                                                                         *)
(* The automaton is the list `states` (indexed from 0, as in the source)   *)
(* and the index `last`.  A string is a sequence of one-character strings. *)
(* extend and longest_common_substring are translated statement by         *)
(* statement into operators; the actions Extend and Query apply them.      *)
(***************************************************************************)
EXTENDS Integers, Sequences, FiniteSets, TLC

VARIABLES
    states,   \* self.states : index -> [next, link, len]
    last,     \* self.last
    built,    \* the symbols passed to extend so far, in order
    call,     \* the latest call: [op |-> "init"], [op |-> "extend", ch |-> c]
              \* or [op |-> "lcs", t |-> argument, best |-> returned value]
    \* data_structures/lru_cache.py
    cache,    \* the LRUCache object: [capacity, map, nodes]
    lruCall,  \* the latest call on it and what it returned
    lruRef,   \* the recency list of the reference cache, most recent first
    \* data_structures/avl_tree.py
    avlRoot,  \* the root the latest insert returned (the caller's `root`)
    avlCall,  \* the latest insert call: its key and whether it raised
    \* compression/huffman_coding.py
    huff,     \* the latest call: its text and what it returned
    \* data_structures/dsu.py
    dsu,      \* the DSU object: [parent, rank]
    dsuCall,  \* the latest call on it and what it returned
    dsuRef,   \* the closure of the pairs passed to union so far
    \* data_structures/min_heap.py
    minHeap,  \* self.heap of the MinHeap object
    heapCall, \* the latest call on it and what it returned
    \* string/boyer_moore.py
    bmh,      \* the latest call: text, pattern and the list returned
    \* string/suffix_automaton.py, extend statement by statement
    auto,     \* the SuffixAutomaton object: [states, dicts, last]; a state's
              \* next is the identity of a dict, dicts holds their contents
    thread,   \* per thread: where it is in extend, its locals, calls left
    hist      \* the string built before, the symbols of the calls in the
              \* order they began, whether the calls ran one after the other,
              \* and the (q, clone) pairs of the splits

samVars == <<states, last, built, call>>
lruVars == <<cache, lruCall, lruRef>>
avlVars == <<avlRoot, avlCall>>
huffVars == <<huff>>
dsuVars == <<dsu, dsuCall, dsuRef>>
heapVars == <<minHeap, heapCall>>
bmhVars == <<bmh>>
stmVars == <<auto, thread, hist>>

vars == <<samVars, lruVars, avlVars, huffVars, dsuVars, heapVars, bmhVars, stmVars>>

\* the variables of a structure that is not running
LruOff == cache = <<>> /\ lruCall = <<>> /\ lruRef = <<>>

AvlOff == avlRoot = <<>> /\ avlCall = <<>>
SamOff == states = <<>> /\ last = 0 /\ built = <<>> /\ call = <<>>

HuffOff == huff = <<>>
DsuOff == dsu = <<>> /\ dsuCall = <<>> /\ dsuRef = <<>>
HeapOff == minHeap = <<>> /\ heapCall = <<>>
BmhOff == bmh = <<>>
StmOff == auto = <<>> /\ thread = <<>> /\ hist = <<>>

notSam == <<lruVars, avlVars, huffVars, dsuVars, heapVars, bmhVars, stmVars>>
notLru == <<samVars, avlVars, huffVars, dsuVars, heapVars, bmhVars, stmVars>>
notAvl == <<samVars, lruVars, huffVars, dsuVars, heapVars, bmhVars, stmVars>>
notHuff == <<samVars, lruVars, avlVars, dsuVars, heapVars, bmhVars, stmVars>>
notDsu == <<samVars, lruVars, avlVars, huffVars, heapVars, bmhVars, stmVars>>
notHeap == <<samVars, lruVars, avlVars, huffVars, dsuVars, bmhVars, stmVars>>
notBmh == <<samVars, lruVars, avlVars, huffVars, dsuVars, heapVars, stmVars>>
notStm == <<samVars, lruVars, avlVars, huffVars, dsuVars, heapVars, bmhVars>>

----------------------------------------------------------------------------
(* Bounds and inputs *)

MaxN == 4          \* every string over Alphabet up to this length is built
MaxT == 3          \* every string over Alphabet up to this length is queried

Alphabet == {"a", "b", "c"}

\* The strings of the module's own tests and of the documented scenarios.
Abacaba == <<"a", "b", "a", "c", "a", "b", "a">>
Banana == <<"b", "a", "n", "a", "n", "a">>
Aaaa == <<"a", "a", "a", "a">>
Acab == <<"a", "c", "a", "b">>
Xyz == <<"x", "y", "z">>
Ananas == <<"a", "n", "a", "n", "a", "s">>
Aaaaaaaa == <<"a", "a", "a", "a", "a", "a", "a", "a">>

ScenarioBuilds == {Abacaba, Banana, Aaaa}
ScenarioQueries == {Acab, Xyz, Ananas, Aaaaaaaa}

RECURSIVE Strs(_)
Strs(k) ==
    IF k = 0 THEN {<<>>}
    ELSE LET prev == Strs(k - 1)
         IN  prev \cup {Append(w, c) : w \in prev, c \in Alphabet}

BuildSymbols == Alphabet \cup UNION {{w[i] : i \in 1..Len(w)} : w \in ScenarioBuilds}
QueryInputs == Strs(MaxT) \cup ScenarioQueries

IsPrefix(u, w) == Len(u) <= Len(w) /\ SubSeq(w, 1, Len(u)) = u

----------------------------------------------------------------------------
(* class State and SuffixAutomaton.__init__ *)

EmptyMap == [x \in {} |-> 0]

NewState == [next |-> EmptyMap, link |-> -1, len |-> 0]

NumStates(sts) == Cardinality(DOMAIN sts)

\* self.states.append(State())
AppendState(sts) == [i \in 0..NumStates(sts) |-> IF i \in DOMAIN sts THEN sts[i] ELSE NewState]

----------------------------------------------------------------------------
(* SuffixAutomaton.extend *)

\* mutant: the new state keeps the length of last
CurLen_SameAsLast(sts, lst) == sts[lst].len

\* self.states[cur].len = self.states[self.last].len + 1
CurLen(sts, lst) == sts[lst].len + 1

\* mutant: `if` for `while`, only last gets the new transition
Walk1_Once(sts, p, ch, cur) ==
    IF p # -1 /\ ch \notin DOMAIN sts[p].next
    THEN [states |-> [sts EXCEPT ![p].next = (ch :> cur) @@ @], p |-> sts[p].link]
    ELSE [states |-> sts, p |-> p]

\* while p != -1 and ch not in self.states[p].next: ...
RECURSIVE Walk1(_, _, _, _)
Walk1(sts, p, ch, cur) ==
    IF p # -1 /\ ch \notin DOMAIN sts[p].next
    THEN Walk1([sts EXCEPT ![p].next = (ch :> cur) @@ @], sts[p].link, ch, cur)
    ELSE [states |-> sts, p |-> p]

\* mutant: q is never cloned
NoSplit_Always(sts, p, q) == TRUE

\* mutant: q is cloned whenever the walk stops at a state
NoSplit_Never(sts, p, q) == FALSE

\* if self.states[p].len + 1 == self.states[q].len
NoSplit(sts, p, q) == sts[p].len + 1 = sts[q].len

\* mutant: the clone gets the length of p
CloneLen_NoIncrement(sts, p) == sts[p].len

\* mutant: the clone is made one symbol too long
CloneLen_PlusTwo(sts, p) == sts[p].len + 2

\* self.states[clone].len = self.states[p].len + 1
CloneLen(sts, p) == sts[p].len + 1

\* mutant: no transition is redirected to the clone
Walk2_NoRedirect(sts, p, ch, q, clone) == sts

\* mutant: every ch-transition on the chain is redirected, whatever its target
RECURSIVE Walk2_AnyTarget(_, _, _, _, _)
Walk2_AnyTarget(sts, p, ch, q, clone) ==
    IF p # -1 /\ ch \in DOMAIN sts[p].next
    THEN Walk2_AnyTarget([sts EXCEPT ![p].next[ch] = clone], sts[p].link, ch, q, clone)
    ELSE sts

\* while p != -1 and self.states[p].next.get(ch, None) == q: ...
RECURSIVE Walk2(_, _, _, _, _)
Walk2(sts, p, ch, q, clone) ==
    IF p # -1 /\ ch \in DOMAIN sts[p].next /\ sts[p].next[ch] = q
    THEN Walk2([sts EXCEPT ![p].next[ch] = clone], sts[p].link, ch, q, clone)
    ELSE sts

\* mutant: q keeps its old link after the clone is made
Split_QLinkStale(sts, p, q, ch, cur) ==
    LET clone == NumStates(sts)
        s1 == AppendState(sts)
        s2 == [s1 EXCEPT ![clone].next = s1[q].next]
        s3 == [s2 EXCEPT ![clone].len = CloneLen(s2, p)]
        s4 == [s3 EXCEPT ![clone].link = s3[q].link]
        s5 == Walk2(s4, p, ch, q, clone)
    IN  [s5 EXCEPT ![cur].link = clone]

\* mutant: after a split cur is linked to q, not to the clone
Split_CurToQ(sts, p, q, ch, cur) ==
    LET clone == NumStates(sts)
        s1 == AppendState(sts)
        s2 == [s1 EXCEPT ![clone].next = s1[q].next]
        s3 == [s2 EXCEPT ![clone].len = CloneLen(s2, p)]
        s4 == [s3 EXCEPT ![clone].link = s3[q].link]
        s5 == Walk2(s4, p, ch, q, clone)
        s6 == [s5 EXCEPT ![q].link = clone]
    IN  [s6 EXCEPT ![cur].link = q]

\* the else branch: clone q, redirect, relink
Split(sts, p, q, ch, cur) ==
    LET clone == NumStates(sts)
        s1 == AppendState(sts)
        s2 == [s1 EXCEPT ![clone].next = s1[q].next]
        s3 == [s2 EXCEPT ![clone].len = CloneLen(s2, p)]
        s4 == [s3 EXCEPT ![clone].link = s3[q].link]
        s5 == Walk2(s4, p, ch, q, clone)
        s6 == [s5 EXCEPT ![q].link = clone]
    IN  [s6 EXCEPT ![cur].link = clone]

\* mutant: cur.link is left unset when the walk runs off the initial state
LinkCur_Unset(sts, p, ch, cur) ==
    IF p = -1
    THEN sts
    ELSE LET q == sts[p].next[ch]
         IN  IF NoSplit(sts, p, q)
             THEN [sts EXCEPT ![cur].link = q]
             ELSE Split(sts, p, q, ch, cur)

\* mutant: the link is written to the initial state instead of cur
LinkCur_InitLink(sts, p, ch, cur) ==
    IF p = -1
    THEN [sts EXCEPT ![0].link = cur]
    ELSE LET q == sts[p].next[ch]
         IN  IF NoSplit(sts, p, q)
             THEN [sts EXCEPT ![cur].link = q]
             ELSE Split(sts, p, q, ch, cur)

\* mutant: without a split cur is linked to the stop state p, not to q
LinkCur_ToStop(sts, p, ch, cur) ==
    IF p = -1
    THEN [sts EXCEPT ![cur].link = 0]
    ELSE LET q == sts[p].next[ch]
         IN  IF NoSplit(sts, p, q)
             THEN [sts EXCEPT ![cur].link = p]
             ELSE Split(sts, p, q, ch, cur)

\* mutant: without a split cur is linked to the initial state
LinkCur_ToInitial(sts, p, ch, cur) ==
    IF p = -1
    THEN [sts EXCEPT ![cur].link = 0]
    ELSE LET q == sts[p].next[ch]
         IN  IF NoSplit(sts, p, q)
             THEN [sts EXCEPT ![cur].link = 0]
             ELSE Split(sts, p, q, ch, cur)

\* mutant: when the walk runs off the initial state cur is linked to itself
LinkCur_SelfLink(sts, p, ch, cur) ==
    IF p = -1
    THEN [sts EXCEPT ![cur].link = cur]
    ELSE LET q == sts[p].next[ch]
         IN  IF NoSplit(sts, p, q)
             THEN [sts EXCEPT ![cur].link = q]
             ELSE Split(sts, p, q, ch, cur)

\* cur.link once the first walk has stopped
LinkCur(sts, p, ch, cur) ==
    IF p = -1
    THEN [sts EXCEPT ![cur].link = 0]
    ELSE LET q == sts[p].next[ch]
         IN  IF NoSplit(sts, p, q)
             THEN [sts EXCEPT ![cur].link = q]
             ELSE Split(sts, p, q, ch, cur)

\* mutant: self.last is not moved to cur
ExtendOp_LastStale(sts, lst, ch) ==
    LET cur == NumStates(sts)
        s1 == AppendState(sts)
        s2 == [s1 EXCEPT ![cur].len = CurLen(s1, lst)]
        w == Walk1(s2, lst, ch, cur)
    IN  [states |-> LinkCur(w.states, w.p, ch, cur), last |-> lst]

ExtendOp(sts, lst, ch) ==
    LET cur == NumStates(sts)
        s1 == AppendState(sts)
        s2 == [s1 EXCEPT ![cur].len = CurLen(s1, lst)]
        w == Walk1(s2, lst, ch, cur)
    IN  [states |-> LinkCur(w.states, w.p, ch, cur), last |-> cur]

\* for ch in s: self.extend(ch)
RECURSIVE ConstructFrom(_, _, _)
ConstructFrom(r, s, i) ==
    IF i > Len(s) THEN r
    ELSE ConstructFrom(ExtendOp(r.states, r.last, s[i]), s, i + 1)

\* SuffixAutomaton(s)
Construct(s) ==
    LET fresh == [states |-> (0 :> NewState), last |-> 0]
    IN  IF s # <<>> THEN ConstructFrom(fresh, s, 1) ELSE fresh

\* the state q whose link the call extend(ch) rewrites, -1 when it clones nothing
SplitTarget(sts, lst, ch) ==
    LET cur == NumStates(sts)
        s1 == AppendState(sts)
        s2 == [s1 EXCEPT ![cur].len = CurLen(s1, lst)]
        w == Walk1(s2, lst, ch, cur)
    IN  IF w.p = -1 THEN -1
        ELSE LET q == w.states[w.p].next[ch]
             IN  IF NoSplit(w.states, w.p, q) THEN -1 ELSE q

\* i is an index of the list sts
InRange(sts, i) == i \in DOMAIN sts

\* the loop of lines 82-84 dereferences self.states[p] only for indices in range
RECURSIVE Walk1Derefs(_, _, _, _)
Walk1Derefs(sts, p, ch, cur) ==
    IF p = -1 THEN TRUE
    ELSE /\ InRange(sts, p)
         /\ InRange(sts, cur)
         /\ IF ch \notin DOMAIN sts[p].next
            THEN Walk1Derefs([sts EXCEPT ![p].next = (ch :> cur) @@ @], sts[p].link, ch, cur)
            ELSE TRUE

\* the loop of lines 97-99 dereferences self.states[p] only for indices in range
RECURSIVE Walk2Derefs(_, _, _, _, _)
Walk2Derefs(sts, p, ch, q, clone) ==
    IF p = -1 THEN TRUE
    ELSE /\ InRange(sts, p)
         /\ IF ch \in DOMAIN sts[p].next /\ sts[p].next[ch] = q
            THEN Walk2Derefs([sts EXCEPT ![p].next[ch] = clone], sts[p].link, ch, q, clone)
            ELSE TRUE

\* extend(ch) runs to its end: every index it dereferences is in range and
\* the lookup next[ch] of line 88 finds the key
ExtendTotal(sts, lst, ch) ==
    LET cur == NumStates(sts)
        s1 == AppendState(sts)
    IN  /\ InRange(s1, cur)
        /\ InRange(s1, lst)
        /\ LET s2 == [s1 EXCEPT ![cur].len = CurLen(s1, lst)]
           IN  /\ Walk1Derefs(s2, lst, ch, cur)
               /\ LET w == Walk1(s2, lst, ch, cur)
                  IN  \/ w.p = -1
                      \/ /\ InRange(w.states, w.p)
                         /\ ch \in DOMAIN w.states[w.p].next
                         /\ LET q == w.states[w.p].next[ch]
                            IN  /\ InRange(w.states, q)
                                /\ \/ NoSplit(w.states, w.p, q)
                                   \/ Walk2Derefs(AppendState(w.states), w.p, ch, q,
                                                  NumStates(w.states))

\* the number of times the body of the loop of lines 82-84 runs, -1 when
\* it has not exited after fuel tests of its condition
RECURSIVE Walk1Iters(_, _, _, _, _)
Walk1Iters(sts, p, ch, cur, fuel) ==
    IF fuel = 0 THEN -1
    ELSE IF p # -1 /\ ch \notin DOMAIN sts[p].next
    THEN LET rest == Walk1Iters([sts EXCEPT ![p].next = (ch :> cur) @@ @],
                                sts[p].link, ch, cur, fuel - 1)
         IN  IF rest = -1 THEN -1 ELSE rest + 1
    ELSE 0

\* the same for the loop of lines 97-99
RECURSIVE Walk2Iters(_, _, _, _, _, _)
Walk2Iters(sts, p, ch, q, clone, fuel) ==
    IF fuel = 0 THEN -1
    ELSE IF p # -1 /\ ch \in DOMAIN sts[p].next /\ sts[p].next[ch] = q
    THEN LET rest == Walk2Iters([sts EXCEPT ![p].next[ch] = clone],
                                sts[p].link, ch, q, clone, fuel - 1)
         IN  IF rest = -1 THEN -1 ELSE rest + 1
    ELSE 0

----------------------------------------------------------------------------
(* SuffixAutomaton.longest_common_substring *)

\* the number of times the body of the loop of lines 112-115 runs, -1 when
\* it has not exited after fuel tests of its condition
RECURSIVE LcsLinksIters(_, _, _, _)
LcsLinksIters(sts, v, ch, fuel) ==
    IF fuel = 0 THEN -1
    ELSE IF v # -1 /\ ch \notin DOMAIN sts[v].next
    THEN LET rest == LcsLinksIters(sts, sts[v].link, ch, fuel - 1)
         IN  IF rest = -1 THEN -1 ELSE rest + 1
    ELSE 0

\* mutant: l is not cut down to the length of the linked state
RECURSIVE LcsLinks_KeepL(_, _, _, _)
LcsLinks_KeepL(sts, v, l, ch) ==
    IF v # -1 /\ ch \notin DOMAIN sts[v].next
    THEN LcsLinks_KeepL(sts, sts[v].link, l, ch)
    ELSE [v |-> v, l |-> l]

\* mutant: l is set to the len of the state left, not of the state linked to
RECURSIVE LcsLinks_LenOfOld(_, _, _, _)
LcsLinks_LenOfOld(sts, v, l, ch) ==
    IF v # -1 /\ ch \notin DOMAIN sts[v].next
    THEN LcsLinks_LenOfOld(sts, sts[v].link, IF sts[v].link # -1 THEN sts[v].len ELSE l, ch)
    ELSE [v |-> v, l |-> l]

\* while v != -1 and ch not in self.states[v].next: ...
RECURSIVE LcsLinks(_, _, _, _)
LcsLinks(sts, v, l, ch) ==
    IF v # -1 /\ ch \notin DOMAIN sts[v].next
    THEN LET v2 == sts[v].link
         IN  LcsLinks(sts, v2, IF v2 # -1 THEN sts[v2].len ELSE l, ch)
    ELSE [v |-> v, l |-> l]

\* mutant: l is not reset when no state has a transition on ch
LcsSymbol_NoReset(sts, r, ch) ==
    LET w == LcsLinks(sts, r.v, r.l, ch)
    IN  IF w.v = -1
        THEN [v |-> 0, l |-> r.l, best |-> r.best]
        ELSE LET l2 == w.l + 1
             IN  [v |-> sts[w.v].next[ch], l |-> l2,
                  best |-> IF l2 > r.best THEN l2 ELSE r.best]

\* one iteration of `for ch in t`
LcsSymbol(sts, r, ch) ==
    LET w == LcsLinks(sts, r.v, r.l, ch)
    IN  IF w.v = -1
        THEN [v |-> 0, l |-> 0, best |-> r.best]
        ELSE LET l2 == w.l + 1
             IN  [v |-> sts[w.v].next[ch], l |-> l2,
                  best |-> IF l2 > r.best THEN l2 ELSE r.best]

\* mutant: the last symbol of t is not processed
RECURSIVE LcsRun_SkipLast(_, _, _, _)
LcsRun_SkipLast(sts, r, w, i) ==
    IF i >= Len(w) THEN r ELSE LcsRun_SkipLast(sts, LcsSymbol(sts, r, w[i]), w, i + 1)

\* for ch in t: ...
RECURSIVE LcsRun(_, _, _, _)
LcsRun(sts, r, w, i) ==
    IF i > Len(w) THEN r ELSE LcsRun(sts, LcsSymbol(sts, r, w[i]), w, i + 1)

LongestCommonSubstring(sts, w) == LcsRun(sts, [v |-> 0, l |-> 0, best |-> 0], w, 1).best

\* the loop of lines 112-115 dereferences self.states[v] only for indices in range
RECURSIVE LcsLinksDerefs(_, _, _)
LcsLinksDerefs(sts, v, ch) ==
    IF v = -1 THEN TRUE
    ELSE /\ InRange(sts, v)
         /\ IF ch \notin DOMAIN sts[v].next
            THEN LcsLinksDerefs(sts, sts[v].link, ch)
            ELSE TRUE

\* the iteration for w[i] and all later ones run to their end, from the loop state r
RECURSIVE LcsTotalFrom(_, _, _, _)
LcsTotalFrom(sts, r, w, i) ==
    IF i > Len(w) THEN TRUE
    ELSE /\ LcsLinksDerefs(sts, r.v, w[i])
         /\ LET k == LcsLinks(sts, r.v, r.l, w[i])
            IN  \/ k.v = -1
                \/ /\ InRange(sts, k.v)
                   /\ w[i] \in DOMAIN sts[k.v].next
                   /\ InRange(sts, sts[k.v].next[w[i]])
         /\ LcsTotalFrom(sts, LcsSymbol(sts, r, w[i]), w, i + 1)

\* longest_common_substring(w) runs to its end without a failed lookup
LcsTotal(sts, w) == LcsTotalFrom(sts, [v |-> 0, l |-> 0, best |-> 0], w, 1)

----------------------------------------------------------------------------
(* The state machine *)

Init ==
    /\ states = (0 :> NewState)
    /\ last = 0
    /\ built = <<>>
    /\ call = [op |-> "init"]
    /\ LruOff /\ AvlOff /\ HuffOff /\ DsuOff /\ HeapOff /\ BmhOff /\ StmOff

Extend(ch) ==
    /\ \/ Len(built) < MaxN /\ ch \in Alphabet
       \/ \E w \in ScenarioBuilds : IsPrefix(Append(built, ch), w)
    /\ LET r == ExtendOp(states, last, ch)
       IN  /\ states' = r.states
           /\ last' = r.last
    /\ built' = Append(built, ch)
    /\ call' = [op |-> "extend", ch |-> ch]
    /\ UNCHANGED notSam

Query(w) ==
    /\ call' = [op |-> "lcs", t |-> w, best |-> LongestCommonSubstring(states, w)]
    /\ UNCHANGED <<states, last, built>>
    /\ UNCHANGED notSam

Next ==
    \/ \E ch \in BuildSymbols : Extend(ch)
    \/ \E w \in QueryInputs : Query(w)

Spec == Init /\ [][Next]_vars

----------------------------------------------------------------------------
(* data_structures/lru_cache.py: class Node, class LRUCache *)

MaxCap == 2        \* capacities 0..MaxCap
MaxKey == 3        \* keys 1..MaxKey
MaxVal == 3        \* values 1..MaxVal

None == -1         \* Python's None, as a node reference, key or value
HeadNode == 0      \* the node self.head
TailNode == 1      \* the node self.tail

\* Node(key, value)
Node(key, value) == [key |-> key, value |-> value, prev |-> None, next |-> None]

\* LRUCache(capacity)
LruNew(capacity) ==
    [capacity |-> capacity,
     map |-> EmptyMap,
     nodes |-> (HeadNode :> [Node(None, None) EXCEPT !.next = TailNode]) @@
               (TailNode :> [Node(None, None) EXCEPT !.prev = HeadNode])]

\* the reference of a node that Node(...) creates: one that no live node has
FreshNode(nodes) == CHOOSE i \in 2..(Cardinality(DOMAIN nodes) + 2) :
                        /\ i \notin DOMAIN nodes
                        /\ \A j \in 2..(i - 1) : j \in DOMAIN nodes

\* mutant: the successor's back pointer is left as it was
Remove_NoBackPointer(nodes, node) ==
    LET p == nodes[node].prev
        n == nodes[node].next
    IN  IF p = None THEN [nodes |-> nodes, raised |-> TRUE]
        ELSE [nodes |-> [nodes EXCEPT ![p].next = n], raised |-> n = None]

\* _remove(node); raised is TRUE when p.next or n.prev is set on None
Remove(nodes, node) ==
    LET p == nodes[node].prev
        n == nodes[node].next
    IN  IF p = None THEN [nodes |-> nodes, raised |-> TRUE]
        ELSE LET s1 == [nodes EXCEPT ![p].next = n]
             IN  IF n = None THEN [nodes |-> s1, raised |-> TRUE]
                 ELSE [nodes |-> [s1 EXCEPT ![n].prev = p], raised |-> FALSE]

\* _add_front(node)
AddFront(nodes, node) ==
    LET s1 == [nodes EXCEPT ![node].next = nodes[HeadNode].next]
        s2 == [s1 EXCEPT ![node].prev = HeadNode]
        s3 == [s2 EXCEPT ![s2[HeadNode].next].prev = node]
    IN  [s3 EXCEPT ![HeadNode].next = node]

\* get(key): the cache afterwards, the returned value, whether it raised
GetOp(c, key) ==
    IF key \notin DOMAIN c.map
    THEN [cache |-> c, ret |-> -1, raised |-> FALSE]
    ELSE LET node == c.map[key]
             r == Remove(c.nodes, node)
         IN  IF r.raised
             THEN [cache |-> [c EXCEPT !.nodes = r.nodes], ret |-> None, raised |-> TRUE]
             ELSE [cache |-> [c EXCEPT !.nodes = AddFront(r.nodes, node)],
                   ret |-> c.nodes[node].value, raised |-> FALSE]

\* the else branch of put: evict when full, then insert a new node
PutNew(c, key, value) ==
    LET full == Cardinality(DOMAIN c.map) >= c.capacity
        lru == c.nodes[TailNode].prev
        r == IF full THEN Remove(c.nodes, lru) ELSE [nodes |-> c.nodes, raised |-> FALSE]
    IN  IF r.raised
        THEN [cache |-> [c EXCEPT !.nodes = r.nodes], ret |-> None, raised |-> TRUE]
        ELSE LET map1 == IF full
                         THEN [k \in DOMAIN c.map \ {r.nodes[lru].key} |-> c.map[k]]
                         ELSE c.map
                 \* the evicted node is referenced by nothing any more
                 live == IF full
                         THEN [i \in DOMAIN r.nodes \ {lru} |-> r.nodes[i]]
                         ELSE r.nodes
                 node == FreshNode(live)
                 nodes1 == (node :> Node(key, value)) @@ live
             IN  [cache |-> [c EXCEPT !.map = (key :> node) @@ map1,
                                      !.nodes = AddFront(nodes1, node)],
                  ret |-> None, raised |-> FALSE]

\* put(key, value)
PutOp(c, key, value) ==
    IF key \in DOMAIN c.map
    THEN LET node == c.map[key]
             s1 == [c.nodes EXCEPT ![node].value = value]
             r == Remove(s1, node)
         IN  IF r.raised
             THEN [cache |-> [c EXCEPT !.nodes = r.nodes], ret |-> None, raised |-> TRUE]
             ELSE [cache |-> [c EXCEPT !.nodes = AddFront(r.nodes, node)],
                   ret |-> None, raised |-> FALSE]
    ELSE PutNew(c, key, value)

\* The reference cache: a list of [key, value], most recently used first.
RefHas(ref, key) == \E i \in 1..Len(ref) : ref[i].key = key

RefIndex(ref, key) == CHOOSE i \in 1..Len(ref) : ref[i].key = key

RefWithout(ref, key) == SelectSeq(ref, LAMBDA e : e.key # key)

RefGet(ref, key) ==
    IF RefHas(ref, key)
    THEN [ref |-> <<ref[RefIndex(ref, key)]>> \o RefWithout(ref, key),
          ret |-> ref[RefIndex(ref, key)].value]
    ELSE [ref |-> ref, ret |-> -1]

RefPut(ref, capacity, key, value) ==
    LET kept == IF RefHas(ref, key) THEN RefWithout(ref, key)
                ELSE IF Len(ref) >= capacity THEN SubSeq(ref, 1, Len(ref) - 1)
                ELSE ref
    IN  <<[key |-> key, value |-> value]>> \o kept

LruInit ==
    /\ \E capacity \in 0..MaxCap : cache = LruNew(capacity)
    /\ lruCall = [op |-> "init"]
    /\ lruRef = <<>>
    /\ SamOff /\ AvlOff /\ HuffOff /\ DsuOff /\ HeapOff /\ BmhOff /\ StmOff

Get(key) ==
    LET r == GetOp(cache, key)
    IN  /\ cache' = r.cache
        /\ lruCall' = [op |-> "get", key |-> key, ret |-> r.ret, raised |-> r.raised]
        /\ lruRef' = RefGet(lruRef, key).ref
        /\ UNCHANGED notLru

Put(key, value) ==
    LET r == PutOp(cache, key, value)
    IN  /\ cache' = r.cache
        /\ lruCall' = [op |-> "put", key |-> key, value |-> value, ret |-> r.ret,
                       raised |-> r.raised]
        /\ lruRef' = IF r.raised THEN lruRef
                     ELSE RefPut(lruRef, cache.capacity, key, value)
        /\ UNCHANGED notLru

LruNext ==
    \/ \E key \in 1..MaxKey : Get(key)
    \/ \E key \in 1..MaxKey : \E value \in 1..MaxVal : Put(key, value)

SpecLRU == LruInit /\ [][LruNext]_vars

----------------------------------------------------------------------------
(* data_structures/avl_tree.py: class AVLNode, class AVLTree *)

MaxAvlNodes == 5   \* insert is called on trees of fewer nodes than this
MaxAvlKey == 3     \* keys 1..MaxAvlKey

Nil == [nil |-> TRUE]                    \* None, the empty tree
IsNil(node) == "nil" \in DOMAIN node

Max(a, b) == IF a >= b THEN a ELSE b

\* AVLNode(key)
AVLNode(key) == [key |-> key, left |-> Nil, right |-> Nil, height |-> 1]

GetHeight(node) == IF IsNil(node) THEN 0 ELSE node.height

GetBalance(node) ==
    IF IsNil(node) THEN 0 ELSE GetHeight(node.left) - GetHeight(node.right)

\* right_rotate(y); raised when y.left is None (x.right on None)
RightRotate(y) ==
    LET x == y.left
    IN  IF IsNil(x) THEN [tree |-> y, raised |-> TRUE]
        ELSE LET T2 == x.right
                 y1 == [y EXCEPT !.left = T2]
                 y2 == [y1 EXCEPT !.height = 1 + Max(GetHeight(y1.left), GetHeight(y1.right))]
                 x1 == [x EXCEPT !.right = y2]
             IN  [tree |-> [x1 EXCEPT !.height = 1 + Max(GetHeight(x1.left), GetHeight(x1.right))],
                  raised |-> FALSE]

\* left_rotate(x); raised when x.right is None (y.left on None)
LeftRotate(x) ==
    LET y == x.right
    IN  IF IsNil(y) THEN [tree |-> x, raised |-> TRUE]
        ELSE LET T2 == y.left
                 x1 == [x EXCEPT !.right = T2]
                 x2 == [x1 EXCEPT !.height = 1 + Max(GetHeight(x1.left), GetHeight(x1.right))]
                 y1 == [y EXCEPT !.left = x2]
             IN  [tree |-> [y1 EXCEPT !.height = 1 + Max(GetHeight(y1.left), GetHeight(y1.right))],
                  raised |-> FALSE]

\* steps 3 and 4 of insert: the four cases, tried in the order of the source
Rebalance(root, key) ==
    LET balance == GetBalance(root)
    IN  IF balance > 1 /\ key < root.left.key THEN RightRotate(root)
        ELSE IF balance < -1 /\ key > root.right.key THEN LeftRotate(root)
        ELSE IF balance > 1 /\ key > root.left.key
             THEN LET l == LeftRotate(root.left)
                  IN  IF l.raised THEN [tree |-> root, raised |-> TRUE]
                      ELSE RightRotate([root EXCEPT !.left = l.tree])
        ELSE IF balance < -1 /\ key < root.right.key
             THEN LET r == RightRotate(root.right)
                  IN  IF r.raised THEN [tree |-> root, raised |-> TRUE]
                      ELSE LeftRotate([root EXCEPT !.right = r.tree])
        ELSE [tree |-> root, raised |-> FALSE]

\* insert(root, key): the node returned, or, when it raised, the object `root`
\* as the calls below it left it
RECURSIVE Insert(_, _)
Insert(root, key) ==
    IF IsNil(root) THEN [tree |-> AVLNode(key), raised |-> FALSE]
    ELSE LET r == Insert(IF key < root.key THEN root.left ELSE root.right, key)
             r1 == IF key < root.key THEN [root EXCEPT !.left = r.tree]
                   ELSE [root EXCEPT !.right = r.tree]
         IN  IF r.raised THEN [tree |-> r1, raised |-> TRUE]
             ELSE Rebalance([r1 EXCEPT !.height = 1 + Max(GetHeight(r1.left), GetHeight(r1.right))],
                            key)

RECURSIVE Size(_)
Size(node) == IF IsNil(node) THEN 0 ELSE 1 + Size(node.left) + Size(node.right)

AvlInit ==
    /\ avlRoot = Nil
    /\ avlCall = [op |-> "init"]
    /\ SamOff /\ LruOff /\ HuffOff /\ DsuOff /\ HeapOff /\ BmhOff /\ StmOff

\* root = tree.insert(root, key)
AvlInsert(key) ==
    /\ Size(avlRoot) < MaxAvlNodes
    /\ LET r == Insert(avlRoot, key)
       IN  /\ avlRoot' = r.tree
           /\ avlCall' = [op |-> "insert", key |-> key, raised |-> r.raised]
    /\ UNCHANGED notAvl

AvlNext == \E key \in 1..MaxAvlKey : AvlInsert(key)

SpecAVL == AvlInit /\ [][AvlNext]_vars

----------------------------------------------------------------------------
(* compression/huffman_coding.py *)

MaxText == 4       \* texts of up to this many characters

HuffChars == {"A", "B", "C"}

NoChar == "None"   \* char of an internal node (None)

\* HuffmanNode(char, freq)
HuffmanNode(char, freq) == [char |-> char, freq |-> freq, left |-> Nil, right |-> Nil]

\* HuffmanNode.__lt__
NodeLt(a, b) == a.freq < b.freq

\* list element at a Python position, and its replacement
At(heap, pos) == heap[pos + 1]
SetAt(heap, pos, item) == [heap EXCEPT ![pos + 1] = item]

\* heapq._siftdown(heap, startpos, pos), newitem being carried
RECURSIVE SiftDownLoop(_, _, _, _)
SiftDownLoop(heap, startpos, pos, newitem) ==
    IF pos > startpos /\ NodeLt(newitem, At(heap, (pos - 1) \div 2))
    THEN SiftDownLoop(SetAt(heap, pos, At(heap, (pos - 1) \div 2)), startpos,
                      (pos - 1) \div 2, newitem)
    ELSE SetAt(heap, pos, newitem)

SiftDown(heap, startpos, pos) == SiftDownLoop(heap, startpos, pos, At(heap, pos))

\* heapq._siftup(heap, pos): the smaller child is moved up until a leaf is
\* reached, then newitem is sifted down from there
RECURSIVE SiftUpLoop(_, _, _, _)
SiftUpLoop(heap, startpos, pos, newitem) ==
    LET endpos == Len(heap)
        childpos == 2 * pos + 1
        rightpos == childpos + 1
        c == IF rightpos < endpos /\ ~NodeLt(At(heap, childpos), At(heap, rightpos))
             THEN rightpos ELSE childpos
    IN  IF childpos < endpos
        THEN SiftUpLoop(SetAt(heap, pos, At(heap, c)), startpos, c, newitem)
        ELSE SiftDown(SetAt(heap, pos, newitem), startpos, pos)

SiftUp(heap, pos) == SiftUpLoop(heap, pos, pos, At(heap, pos))

\* heapq.heapify(x): _siftup(x, i) for i = n//2 - 1 down to 0
RECURSIVE HeapifyFrom(_, _)
HeapifyFrom(heap, i) == IF i < 0 THEN heap ELSE HeapifyFrom(SiftUp(heap, i), i - 1)

Heapify(heap) == HeapifyFrom(heap, (Len(heap) \div 2) - 1)

\* heapq.heappop(heap): the item returned and the heap left
HeapPop(heap) ==
    LET lastelt == heap[Len(heap)]
        rest == SubSeq(heap, 1, Len(heap) - 1)
    IN  IF rest # <<>>
        THEN [item |-> rest[1], heap |-> SiftUp(SetAt(rest, 0, lastelt), 0)]
        ELSE [item |-> lastelt, heap |-> rest]

\* heapq.heappush(heap, item)
HeapPush(heap, item) == SiftDown(Append(heap, item), 0, Len(heap))

\* Counter(text).items(): the characters in the order of their first
\* occurrence, each with its number of occurrences
RECURSIVE FirstSeen(_, _)
FirstSeen(text, i) ==
    IF i > Len(text) THEN <<>>
    ELSE IF \E j \in 1..(i - 1) : text[j] = text[i] THEN FirstSeen(text, i + 1)
         ELSE <<text[i]>> \o FirstSeen(text, i + 1)

Count(text, char) == Cardinality({i \in 1..Len(text) : text[i] = char})

\* the while loop of build_huffman_tree
RECURSIVE MergeAll(_)
MergeAll(queue) ==
    IF Len(queue) > 1
    THEN LET l == HeapPop(queue)
             r == HeapPop(l.heap)
             merged == [HuffmanNode(NoChar, l.item.freq + r.item.freq)
                           EXCEPT !.left = l.item, !.right = r.item]
         IN  MergeAll(HeapPush(r.heap, merged))
    ELSE queue[1]

\* [HuffmanNode(char, freq) for char, freq in frequency.items()]
RECURSIVE PriorityQueue(_, _, _)
PriorityQueue(text, chars, k) ==
    IF k > Len(chars) THEN <<>>
    ELSE <<HuffmanNode(chars[k], Count(text, chars[k]))>> \o PriorityQueue(text, chars, k + 1)

BuildHuffmanTree(text) ==
    IF text = <<>> THEN Nil
    ELSE MergeAll(Heapify(PriorityQueue(text, FirstSeen(text, 1), 1)))

\* build_codes(node, current_code, codes): the dictionary codes afterwards
RECURSIVE BuildCodes(_, _, _)
BuildCodes(node, current_code, codes) ==
    IF IsNil(node) THEN codes
    ELSE IF node.char # NoChar
         THEN [c \in DOMAIN codes \cup {node.char} |->
                  IF c = node.char THEN current_code ELSE codes[c]]
    ELSE BuildCodes(node.right, Append(current_code, "1"),
                    BuildCodes(node.left, Append(current_code, "0"), codes))

\* "".join(codes[char] for char in text)
RECURSIVE JoinCodes(_, _, _)
JoinCodes(table, text, i) ==
    IF i > Len(text) THEN <<>> ELSE table[text[i]] \o JoinCodes(table, text, i + 1)

HuffmanEncoding(text) ==
    IF text = <<>> THEN [encoded |-> <<>>, codes |-> EmptyMap]
    ELSE LET root == BuildHuffmanTree(text)
             table == BuildCodes(root, <<>>, EmptyMap)
         IN  [encoded |-> JoinCodes(table, text, 1), codes |-> table]

\* the for loop of huffman_decoding; raised when it steps off the tree
RECURSIVE DecodeLoop(_, _, _, _, _)
DecodeLoop(encoded, i, root, current_node, decoded) ==
    IF i > Len(encoded) THEN [text |-> decoded, raised |-> FALSE]
    ELSE LET n == IF encoded[i] = "0" THEN current_node.left ELSE current_node.right
         IN  IF IsNil(n) THEN [text |-> decoded, raised |-> TRUE]
             ELSE IF n.char # NoChar
                  THEN DecodeLoop(encoded, i + 1, root, root, Append(decoded, n.char))
                  ELSE DecodeLoop(encoded, i + 1, root, n, decoded)

HuffmanDecoding(encoded, root) ==
    IF encoded = <<>> \/ IsNil(root) THEN [text |-> <<>>, raised |-> FALSE]
    ELSE DecodeLoop(encoded, 1, root, root, <<>>)

RECURSIVE Texts(_)
Texts(k) ==
    IF k = 0 THEN {<<>>}
    ELSE LET prev == Texts(k - 1)
         IN  prev \cup {Append(w, c) : w \in prev, c \in HuffChars}

HuffInit ==
    /\ huff = [op |-> "init"]
    /\ SamOff /\ LruOff /\ AvlOff /\ DsuOff /\ HeapOff /\ BmhOff /\ StmOff

\* encoded, codes = huffman_encoding(text)
HuffEncode(text) ==
    /\ LET r == HuffmanEncoding(text)
       IN  huff' = [op |-> "encode", text |-> text, encoded |-> r.encoded, codes |-> r.codes]
    /\ UNCHANGED notHuff

\* huffman_decoding(encoded, build_huffman_tree(text)) for the latest encoding
HuffDecode ==
    /\ huff.op = "encode"
    /\ LET r == HuffmanDecoding(huff.encoded, BuildHuffmanTree(huff.text))
       IN  huff' = [op |-> "decode", text |-> huff.text, encoded |-> huff.encoded,
                    codes |-> huff.codes, decoded |-> r.text, raised |-> r.raised]
    /\ UNCHANGED notHuff

HuffNext ==
    \/ \E text \in Texts(MaxText) : HuffEncode(text)
    \/ HuffDecode

SpecHuffman == HuffInit /\ [][HuffNext]_vars

----------------------------------------------------------------------------
(* data_structures/dsu.py *)

MaxElems == 4      \* DSU(n) for n up to this

\* DSU(n)
DsuNew(n) == [parent |-> [k \in 0..(n - 1) |-> k], rank |-> [k \in 0..(n - 1) |-> 0]]

\* a mutation: find returns the parent of i without climbing to the root
Find_ParentOnly(d, i) == [d |-> d, root |-> d.parent[i]]

\* find(i): the object afterwards (paths compressed) and the value returned
RECURSIVE Find(_, _)
Find(d, i) ==
    IF d.parent[i] # i
    THEN LET r == Find(d, d.parent[i])
             after == [r.d EXCEPT !.parent[i] = r.root]
         IN  [d |-> after, root |-> after.parent[i]]
    ELSE [d |-> d, root |-> d.parent[i]]

\* union by rank, the body of `if root_i != root_j`
Link(d, root_i, root_j) ==
    IF d.rank[root_i] < d.rank[root_j] THEN [d EXCEPT !.parent[root_i] = root_j]
    ELSE IF d.rank[root_i] > d.rank[root_j] THEN [d EXCEPT !.parent[root_j] = root_i]
    ELSE [d EXCEPT !.parent[root_j] = root_i, !.rank[root_i] = @ + 1]

\* union(i, j)
UnionOp(d, i, j) ==
    LET fi == Find(d, i)
        fj == Find(fi.d, j)
    IN  IF fi.root # fj.root
        THEN [d |-> Link(fj.d, fi.root, fj.root), result |-> TRUE]
        ELSE [d |-> fj.d, result |-> FALSE]

\* connected(i, j)
ConnectedOp(d, i, j) ==
    LET fi == Find(d, i)
        fj == Find(fi.d, j)
    IN  [d |-> fj.d, result |-> fi.root = fj.root]

Elems == DOMAIN dsu.parent

\* the reflexive-symmetric-transitive closure of pairs on 0..n-1
RECURSIVE TransitiveClosure(_)
TransitiveClosure(rel) ==
    LET more == rel \cup {<<x[1][1], x[2][2]>> : x \in {y \in rel \X rel : y[1][2] = y[2][1]}}
    IN  IF more = rel THEN rel ELSE TransitiveClosure(more)

Closure(elems, pairs) ==
    TransitiveClosure(pairs \cup {<<p[2], p[1]>> : p \in pairs} \cup {<<k, k>> : k \in elems})

DsuInit ==
    /\ \E n \in 1..MaxElems : dsu = DsuNew(n)
    /\ dsuCall = [op |-> "init"]
    /\ dsuRef = Closure(Elems, {})
    /\ SamOff /\ LruOff /\ AvlOff /\ HuffOff /\ HeapOff /\ BmhOff /\ StmOff

DsuFind(i) ==
    /\ LET r == Find(dsu, i)
       IN  /\ dsu' = r.d
           /\ dsuCall' = [op |-> "find", i |-> i, result |-> r.root]
    /\ UNCHANGED <<dsuRef, notDsu>>

DsuUnion(i, j) ==
    /\ LET r == UnionOp(dsu, i, j)
       IN  /\ dsu' = r.d
           /\ dsuCall' = [op |-> "union", i |-> i, j |-> j, result |-> r.result]
    /\ dsuRef' = Closure(Elems, dsuRef \cup {<<i, j>>})
    /\ UNCHANGED notDsu

DsuConnected(i, j) ==
    /\ LET r == ConnectedOp(dsu, i, j)
       IN  /\ dsu' = r.d
           /\ dsuCall' = [op |-> "connected", i |-> i, j |-> j, result |-> r.result]
    /\ UNCHANGED <<dsuRef, notDsu>>

DsuNext ==
    \/ \E i \in Elems : DsuFind(i)
    \/ \E i \in Elems, j \in Elems : DsuUnion(i, j)
    \/ \E i \in Elems, j \in Elems : DsuConnected(i, j)

SpecDSU == DsuInit /\ [][DsuNext]_vars

----------------------------------------------------------------------------
(* data_structures/min_heap.py *)

MaxHeapSize == 5   \* keys stored at a time
MaxHeapKey == 3    \* keys 1..MaxHeapKey

\* parent(i), left_child(i), right_child(i), positions from 0
Parent(i) == (i - 1) \div 2
LeftChild(i) == 2 * i + 1
RightChild(i) == 2 * i + 2

\* self.heap[i], self.heap[j] = self.heap[j], self.heap[i]
Swap(heap, i, j) == [heap EXCEPT ![i + 1] = heap[j + 1], ![j + 1] = heap[i + 1]]

\* _sift_up(i)
RECURSIVE MinHeapSiftUp(_, _)
MinHeapSiftUp(heap, i) ==
    IF i > 0 /\ At(heap, Parent(i)) > At(heap, i)
    THEN MinHeapSiftUp(Swap(heap, i, Parent(i)), Parent(i))
    ELSE heap

\* the position _sift_down(i) picks among i and its children
MinIndex(heap, i) ==
    LET l == LeftChild(i)
        r == RightChild(i)
        m1 == IF l < Len(heap) /\ At(heap, l) < At(heap, i) THEN l ELSE i
    IN  IF r < Len(heap) /\ At(heap, r) < At(heap, m1) THEN r ELSE m1

\* a mutation: _sift_down swaps once and does not go on from min_index
MinHeapSiftDown_OneLevel(heap, i) ==
    IF i # MinIndex(heap, i) THEN Swap(heap, i, MinIndex(heap, i)) ELSE heap

\* _sift_down(i)
RECURSIVE MinHeapSiftDown(_, _)
MinHeapSiftDown(heap, i) ==
    IF i # MinIndex(heap, i)
    THEN MinHeapSiftDown(Swap(heap, i, MinIndex(heap, i)), MinIndex(heap, i))
    ELSE heap

\* insert(key): the list afterwards
InsertKey(heap, key) == MinHeapSiftUp(Append(heap, key), Len(heap))

\* extract_min(): the list afterwards and the value returned
ExtractMin(heap) ==
    IF heap = <<>> THEN [heap |-> heap, result |-> None]
    ELSE IF Len(heap) = 1 THEN [heap |-> <<>>, result |-> heap[1]]
    ELSE LET popped == SubSeq(heap, 1, Len(heap) - 1)
         IN  [heap |-> MinHeapSiftDown(SetAt(popped, 0, heap[Len(heap)]), 0),
              result |-> At(heap, 0)]

\* get_min()
GetMin(heap) == IF heap # <<>> THEN At(heap, 0) ELSE None

HeapInit ==
    /\ minHeap = <<>>
    /\ heapCall = [op |-> "init"]
    /\ SamOff /\ LruOff /\ AvlOff /\ HuffOff /\ DsuOff /\ BmhOff /\ StmOff

HeapInsert(key) ==
    /\ Len(minHeap) < MaxHeapSize
    /\ minHeap' = InsertKey(minHeap, key)
    /\ heapCall' = [op |-> "insert", key |-> key]
    /\ UNCHANGED notHeap

HeapExtractMin ==
    /\ LET r == ExtractMin(minHeap)
       IN  /\ minHeap' = r.heap
           /\ heapCall' = [op |-> "extract_min", result |-> r.result]
    /\ UNCHANGED notHeap

HeapGetMin ==
    /\ heapCall' = [op |-> "get_min", result |-> GetMin(minHeap)]
    /\ UNCHANGED <<minHeap, notHeap>>

HeapNext ==
    \/ \E key \in 1..MaxHeapKey : HeapInsert(key)
    \/ HeapExtractMin
    \/ HeapGetMin

SpecMinHeap == HeapInit /\ [][HeapNext]_vars

----------------------------------------------------------------------------
(* string/boyer_moore.py *)

MaxBmhText == 4    \* text of up to this many characters
MaxBmhPattern == 3 \* pattern of up to this many characters

BmhChars == {"a", "b"}

\* for i in range(m - 1): shift[pattern[i]] = m - 1 - i
RECURSIVE ShiftLoop(_, _, _)
ShiftLoop(shift, pattern, i) ==
    IF i >= Len(pattern) - 1 THEN shift
    ELSE ShiftLoop([c \in DOMAIN shift \cup {pattern[i + 1]} |->
                       IF c = pattern[i + 1] THEN Len(pattern) - 1 - i ELSE shift[c]],
                   pattern, i + 1)

\* the dictionary shift after both of its loops
ShiftTable(text, pattern) ==
    ShiftLoop([c \in {text[k] : k \in DOMAIN text} |-> Len(pattern)], pattern, 0)

\* shift.get(c, m)
ShiftGet(shift, c, m) == IF c \in DOMAIN shift THEN shift[c] ELSE m

\* the inner while loop: the value of j when it ends
RECURSIVE MatchScan(_, _, _, _)
MatchScan(text, pattern, i, j) ==
    IF j >= 0 /\ text[i + j + 1] = pattern[j + 1]
    THEN MatchScan(text, pattern, i, j - 1)
    ELSE j

\* the outer while loop: the list res when it ends
RECURSIVE SearchLoop(_, _, _, _, _)
SearchLoop(text, pattern, shift, i, res) ==
    LET m == Len(pattern)
        n == Len(text)
    IN  IF i <= n - m
        THEN IF MatchScan(text, pattern, i, m - 1) < 0
             THEN SearchLoop(text, pattern, shift, i + m, Append(res, i))
             ELSE SearchLoop(text, pattern, shift,
                             i + ShiftGet(shift, text[i + m], m), res)
        ELSE res

\* boyer_moore_horspool(text, pattern)
BoyerMooreHorspool(text, pattern) ==
    IF Len(pattern) = 0 \/ Len(text) < Len(pattern) THEN <<>>
    ELSE SearchLoop(text, pattern, ShiftTable(text, pattern), 0, <<>>)

RECURSIVE BmhStrs(_)
BmhStrs(k) ==
    IF k = 0 THEN {<<>>}
    ELSE LET prev == BmhStrs(k - 1)
         IN  prev \cup {Append(w, c) : w \in prev, c \in BmhChars}

BmhInit ==
    /\ bmh = [op |-> "init"]
    /\ SamOff /\ LruOff /\ AvlOff /\ HuffOff /\ DsuOff /\ HeapOff /\ StmOff

\* idxs = boyer_moore_horspool(text, pattern)
BmhSearch(text, pattern) ==
    /\ bmh' = [op |-> "search", text |-> text, pattern |-> pattern,
               res |-> BoyerMooreHorspool(text, pattern)]
    /\ UNCHANGED notBmh

BmhNext == \E text \in BmhStrs(MaxBmhText), pattern \in BmhStrs(MaxBmhPattern) :
               BmhSearch(text, pattern)

SpecBMH == BmhInit /\ [][BmhNext]_vars

----------------------------------------------------------------------------
(* string/suffix_automaton.py: extend, one statement at a time, with the
   identity of the dicts that the states' next fields refer to *)

MaxCalls == 6      \* extend calls of the single caller
MaxBase == 2       \* length of the string built before two concurrent calls

Unbound == -2      \* a local that has not been assigned
Threads == {1, 2}

\* the locals of a thread that is not inside extend
IdleThread(left) ==
    [pc |-> "idle", ch |-> "", cur |-> Unbound, p |-> Unbound, q |-> Unbound,
     clone |-> Unbound, left |-> left]

\* mutant: no copy is made, the same dict is handed out
DictCopy_Alias(ds, d) == [dicts |-> ds, id |-> d]

\* d.copy(): a new dict with the contents of d
DictCopy(ds, d) == [dicts |-> Append(ds, ds[d]), id |-> Len(ds) + 1]

\* self.states.append(State()): the new state refers to a new empty dict
StmAppend(a) ==
    [a EXCEPT !.states = [i \in 0..NumStates(a.states) |->
                             IF i \in DOMAIN a.states THEN a.states[i]
                             ELSE [next |-> Len(a.dicts) + 1, link |-> -1, len |-> 0]],
              !.dicts = Append(a.dicts, EmptyMap)]

\* the object that holds the automaton r: every state with a dict of its own
ToObject(r) ==
    [states |-> [v \in DOMAIN r.states |->
                    [next |-> v + 1, link |-> r.states[v].link, len |-> r.states[v].len]],
     dicts |-> [d \in 1..NumStates(r.states) |-> r.states[d - 1].next],
     last |-> r.last]

\* self.states[v].next, the dict itself
NextOf(a, v) == a.dicts[a.states[v].next]

\* the states of the object with the contents of their dicts
Value(a) == [v \in DOMAIN a.states |->
                [next |-> NextOf(a, v), link |-> a.states[v].link, len |-> a.states[v].len]]

\* a thread moves to pc with its locals as in the record loc
Goto(t, pc, loc) == thread' = [thread EXCEPT ![t] = [loc EXCEPT !.pc = pc]]

\* the call extend(ch) is made by thread t
Begin(t, ch) ==
    /\ thread[t].pc = "idle"
    /\ thread[t].left > 0
    /\ thread' = [thread EXCEPT ![t] = [IdleThread(thread[t].left - 1) EXCEPT
                                           !.pc = "l78", !.ch = ch]]
    /\ hist' = [hist EXCEPT !.order = Append(@, ch),
                            !.serial = @ /\ \A u \in Threads \ {t} :
                                                 thread[u].pc = "idle"]
    /\ UNCHANGED <<auto, notStm>>

\* cur = len(self.states)
L78(t) ==
    /\ thread[t].pc = "l78"
    /\ Goto(t, "l79", [thread[t] EXCEPT !.cur = NumStates(auto.states)])
    /\ UNCHANGED <<auto, hist, notStm>>

\* self.states.append(State())
L79(t) ==
    /\ thread[t].pc = "l79"
    /\ auto' = StmAppend(auto)
    /\ Goto(t, "l80", thread[t])
    /\ UNCHANGED <<hist, notStm>>

\* self.states[cur].len = self.states[self.last].len + 1
L80(t) ==
    /\ thread[t].pc = "l80"
    /\ auto' = [auto EXCEPT !.states[thread[t].cur].len = auto.states[auto.last].len + 1]
    /\ Goto(t, "l81", thread[t])
    /\ UNCHANGED <<hist, notStm>>

\* p = self.last
L81(t) ==
    /\ thread[t].pc = "l81"
    /\ Goto(t, "l82", [thread[t] EXCEPT !.p = auto.last])
    /\ UNCHANGED <<auto, hist, notStm>>

\* while p != -1 and ch not in self.states[p].next:
L82(t) ==
    /\ thread[t].pc = "l82"
    /\ IF thread[t].p # -1 /\ thread[t].ch \notin DOMAIN NextOf(auto, thread[t].p)
       THEN Goto(t, "l83", thread[t])
       ELSE Goto(t, "l85", thread[t])
    /\ UNCHANGED <<auto, hist, notStm>>

\* self.states[p].next[ch] = cur
L83(t) ==
    /\ thread[t].pc = "l83"
    /\ auto' = [auto EXCEPT !.dicts[auto.states[thread[t].p].next] =
                                (thread[t].ch :> thread[t].cur) @@ @]
    /\ Goto(t, "l84", thread[t])
    /\ UNCHANGED <<hist, notStm>>

\* p = self.states[p].link
L84(t) ==
    /\ thread[t].pc = "l84"
    /\ Goto(t, "l82", [thread[t] EXCEPT !.p = auto.states[thread[t].p].link])
    /\ UNCHANGED <<auto, hist, notStm>>

\* if p == -1:
L85(t) ==
    /\ thread[t].pc = "l85"
    /\ IF thread[t].p = -1 THEN Goto(t, "l86", thread[t]) ELSE Goto(t, "l88", thread[t])
    /\ UNCHANGED <<auto, hist, notStm>>

\* self.states[cur].link = 0
L86(t) ==
    /\ thread[t].pc = "l86"
    /\ auto' = [auto EXCEPT !.states[thread[t].cur].link = 0]
    /\ Goto(t, "l102", thread[t])
    /\ UNCHANGED <<hist, notStm>>

\* q = self.states[p].next[ch]
L88(t) ==
    /\ thread[t].pc = "l88"
    /\ Goto(t, "l89", [thread[t] EXCEPT !.q = NextOf(auto, thread[t].p)[thread[t].ch]])
    /\ UNCHANGED <<auto, hist, notStm>>

\* if self.states[p].len + 1 == self.states[q].len:
L89(t) ==
    /\ thread[t].pc = "l89"
    /\ IF auto.states[thread[t].p].len + 1 = auto.states[thread[t].q].len
       THEN Goto(t, "l90", thread[t])
       ELSE Goto(t, "l92", thread[t])
    /\ UNCHANGED <<auto, hist, notStm>>

\* self.states[cur].link = q
L90(t) ==
    /\ thread[t].pc = "l90"
    /\ auto' = [auto EXCEPT !.states[thread[t].cur].link = thread[t].q]
    /\ Goto(t, "l102", thread[t])
    /\ UNCHANGED <<hist, notStm>>

\* clone = len(self.states)
L92(t) ==
    /\ thread[t].pc = "l92"
    /\ Goto(t, "l93", [thread[t] EXCEPT !.clone = NumStates(auto.states)])
    /\ UNCHANGED <<auto, hist, notStm>>

\* self.states.append(State())
L93(t) ==
    /\ thread[t].pc = "l93"
    /\ auto' = StmAppend(auto)
    /\ Goto(t, "l94", thread[t])
    /\ UNCHANGED <<hist, notStm>>

\* self.states[clone].next = self.states[q].next.copy()
L94(t) ==
    /\ thread[t].pc = "l94"
    /\ LET c == DictCopy(auto.dicts, auto.states[thread[t].q].next)
       IN  auto' = [auto EXCEPT !.dicts = c.dicts, !.states[thread[t].clone].next = c.id]
    /\ hist' = [hist EXCEPT !.pairs = @ \cup {<<thread[t].q, thread[t].clone>>}]
    /\ Goto(t, "l95", thread[t])
    /\ UNCHANGED notStm

\* self.states[clone].len = self.states[p].len + 1
L95(t) ==
    /\ thread[t].pc = "l95"
    /\ auto' = [auto EXCEPT !.states[thread[t].clone].len = auto.states[thread[t].p].len + 1]
    /\ Goto(t, "l96", thread[t])
    /\ UNCHANGED <<hist, notStm>>

\* self.states[clone].link = self.states[q].link
L96(t) ==
    /\ thread[t].pc = "l96"
    /\ auto' = [auto EXCEPT !.states[thread[t].clone].link = auto.states[thread[t].q].link]
    /\ Goto(t, "l97", thread[t])
    /\ UNCHANGED <<hist, notStm>>

\* while p != -1 and self.states[p].next.get(ch, None) == q:
L97(t) ==
    /\ thread[t].pc = "l97"
    /\ IF /\ thread[t].p # -1
          /\ thread[t].ch \in DOMAIN NextOf(auto, thread[t].p)
          /\ NextOf(auto, thread[t].p)[thread[t].ch] = thread[t].q
       THEN Goto(t, "l98", thread[t])
       ELSE Goto(t, "l100", thread[t])
    /\ UNCHANGED <<auto, hist, notStm>>

\* self.states[p].next[ch] = clone
L98(t) ==
    /\ thread[t].pc = "l98"
    /\ auto' = [auto EXCEPT !.dicts[auto.states[thread[t].p].next] =
                                (thread[t].ch :> thread[t].clone) @@ @]
    /\ Goto(t, "l99", thread[t])
    /\ UNCHANGED <<hist, notStm>>

\* p = self.states[p].link
L99(t) ==
    /\ thread[t].pc = "l99"
    /\ Goto(t, "l97", [thread[t] EXCEPT !.p = auto.states[thread[t].p].link])
    /\ UNCHANGED <<auto, hist, notStm>>

\* self.states[q].link = clone
L100(t) ==
    /\ thread[t].pc = "l100"
    /\ auto' = [auto EXCEPT !.states[thread[t].q].link = thread[t].clone]
    /\ Goto(t, "l101", thread[t])
    /\ UNCHANGED <<hist, notStm>>

\* self.states[cur].link = clone
L101(t) ==
    /\ thread[t].pc = "l101"
    /\ auto' = [auto EXCEPT !.states[thread[t].cur].link = thread[t].clone]
    /\ Goto(t, "l102", thread[t])
    /\ UNCHANGED <<hist, notStm>>

\* mutant: the call returns without setting self.last
L102_KeepLast(t) ==
    /\ thread[t].pc = "l102"
    /\ Goto(t, "idle", thread[t])
    /\ UNCHANGED <<auto, hist, notStm>>

\* self.last = cur, and the call returns
L102(t) ==
    /\ thread[t].pc = "l102"
    /\ auto' = [auto EXCEPT !.last = thread[t].cur]
    /\ Goto(t, "idle", thread[t])
    /\ UNCHANGED <<hist, notStm>>

StmNext ==
    \/ \E t \in Threads : \E ch \in Alphabet : Begin(t, ch)
    \/ \E t \in Threads : L78(t)
    \/ \E t \in Threads : L79(t)
    \/ \E t \in Threads : L80(t)
    \/ \E t \in Threads : L81(t)
    \/ \E t \in Threads : L82(t)
    \/ \E t \in Threads : L83(t)
    \/ \E t \in Threads : L84(t)
    \/ \E t \in Threads : L85(t)
    \/ \E t \in Threads : L86(t)
    \/ \E t \in Threads : L88(t)
    \/ \E t \in Threads : L89(t)
    \/ \E t \in Threads : L90(t)
    \/ \E t \in Threads : L92(t)
    \/ \E t \in Threads : L93(t)
    \/ \E t \in Threads : L94(t)
    \/ \E t \in Threads : L95(t)
    \/ \E t \in Threads : L96(t)
    \/ \E t \in Threads : L97(t)
    \/ \E t \in Threads : L98(t)
    \/ \E t \in Threads : L99(t)
    \/ \E t \in Threads : L100(t)
    \/ \E t \in Threads : L101(t)
    \/ \E t \in Threads : L102(t)

StmOthersOff ==
    SamOff /\ LruOff /\ AvlOff /\ HuffOff /\ DsuOff /\ HeapOff /\ BmhOff

\* one caller: SuffixAutomaton(), then up to MaxCalls extend calls in turn,
\* all made by thread 1
StmInit ==
    /\ auto = ToObject(Construct(<<>>))
    /\ thread = [t \in Threads |-> IdleThread(IF t = 1 THEN MaxCalls ELSE 0)]
    /\ hist = [base |-> <<>>, order |-> <<>>, serial |-> TRUE, pairs |-> {}]
    /\ StmOthersOff

SpecStmt == StmInit /\ [][StmNext]_vars

\* two threads, one extend call each, on the automaton of a string built
\* before; nothing orders their statements
ConcInit ==
    /\ \E base \in Strs(MaxBase) : /\ auto = ToObject(Construct(base))
                                    /\ hist = [base |-> base, order |-> <<>>,
                                               serial |-> TRUE, pairs |-> {}]
    /\ thread = [t \in Threads |-> IdleThread(1)]
    /\ StmOthersOff

SpecConc == ConcInit /\ [][StmNext]_vars

----------------------------------------------------------------------------
(* Reference notions the properties are stated with *)

Min(a, b) == IF a <= b THEN a ELSE b

\* w occurs in x as a contiguous run of symbols
IsSubstring(w, x) ==
    \E i \in 0..(Len(x) - Len(w)) : SubSeq(x, i + 1, i + Len(w)) = w

\* all substrings of x, the empty one included
Substrings(x) ==
    {<<>>} \cup {SubSeq(x, i, j) : i \in 1..Len(x), j \in 1..Len(x)}

\* the state in which the walk of w from state v ends, -1 when a transition is missing
RECURSIVE WalkFrom(_, _, _, _)
WalkFrom(sts, v, w, i) ==
    IF i > Len(w) THEN v
    ELSE IF w[i] \in DOMAIN sts[v].next
         THEN WalkFrom(sts, sts[v].next[w[i]], w, i + 1)
         ELSE -1

WalkEnd(sts, w) == WalkFrom(sts, 0, w, 1)

\* every <<string, state>> such that the string has at most k symbols and its
\* walk from state 0 ends in the state: the strings the automaton recognises
RECURSIVE Paths(_, _, _)
Paths(sts, frontier, k) ==
    IF k = 0 \/ frontier = {} THEN frontier
    ELSE frontier \cup
         Paths(sts,
               UNION {{<<Append(e[1], c), sts[e[2]].next[c]>> : c \in DOMAIN sts[e[2]].next}
                      : e \in frontier},
               k - 1)

Recognised(sts, k) == {e[1] : e \in Paths(sts, {<<(<<>>), 0>>}, k)}

\* every <<string, state>> of the automaton: no walk is longer than the built string
AllPaths(sts, x) == Paths(sts, {<<(<<>>), 0>>}, Len(x))

\* the strings whose walk from state 0 ends in v
StringsOf(sts, x, v) == {e[1] : e \in {f \in AllPaths(sts, x) : f[2] = v}}

\* the last k symbols of w
Suffix(w, k) == SubSeq(w, Len(w) - k + 1, Len(w))

\* the longest string whose walk ends in v
LongestOf(sts, x, v) ==
    CHOOSE w \in StringsOf(sts, x, v) : \A u \in StringsOf(sts, x, v) : Len(u) <= Len(w)

\* the sum of len - link.len over the states 1..k
RECURSIVE LinkGaps(_, _)
LinkGaps(sts, k) ==
    IF k <= 0 THEN 0
    ELSE sts[k].len - sts[sts[k].link].len + LinkGaps(sts, k - 1)

\* the end positions of the occurrences of w in x (0..Len(x) for the empty string)
Endpos(w, x) ==
    {i \in Len(w)..Len(x) : SubSeq(x, i - Len(w) + 1, i) = w}

MaxOf(S) == CHOOSE m \in S : \A k \in S : k <= m

\* length of the longest common substring by a scan over all substring pairs
BruteLCS(x, y) ==
    MaxOf({Len(u) : u \in {w \in Substrings(x) : \E z \in Substrings(y) : z = w}})

\* the length of the longest suffix of u that is a substring of x
LongestSuffixIn(u, x) == MaxOf({k \in 0..Len(u) : IsSubstring(Suffix(u, k), x)})

\* the loop variables of longest_common_substring(w) after i symbols
LcsAfter(sts, w, i) == LcsRun(sts, [v |-> 0, l |-> 0, best |-> 0], SubSeq(w, 1, i), 1)

\* number of transitions of the states 0..k
RECURSIVE TransitionsUpTo(_, _)
TransitionsUpTo(sts, k) ==
    IF k < 0 THEN 0
    ELSE Cardinality(DOMAIN sts[k].next) + TransitionsUpTo(sts, k - 1)

NumTransitions(sts) == TransitionsUpTo(sts, NumStates(sts) - 1)

\* the states on the suffix-link chain from v, in order, up to and including
\* the first one that has a transition on ch (all of them when none has)
RECURSIVE Chain(_, _, _)
Chain(sts, v, ch) ==
    IF v = -1 THEN <<>>
    ELSE IF ch \in DOMAIN sts[v].next THEN <<v>>
         ELSE <<v>> \o Chain(sts, sts[v].link, ch)

\* the first state on the chain from v that has a transition on ch, -1 when none has
StopState(sts, v, ch) ==
    LET c == Chain(sts, v, ch)
    IN  IF c # <<>> /\ ch \in DOMAIN sts[c[Len(c)]].next THEN c[Len(c)] ELSE -1

\* the states the chain visits before the stop state
Visited(sts, v, ch) ==
    LET c == Chain(sts, v, ch)
    IN  {c[i] : i \in 1..Len(c)} \ {StopState(sts, v, ch)}

\* the states met by following suffix links from v until the sentinel -1;
\* fuel bounds the number of links followed
RECURSIVE LinkChain(_, _, _)
LinkChain(sts, v, fuel) ==
    IF v = -1 \/ v \notin DOMAIN sts \/ fuel = 0 THEN {}
    ELSE {v} \cup LinkChain(sts, sts[v].link, fuel - 1)

\* the number of links followed from v to reach the sentinel -1; -1 when it
\* is not reached within fuel links
RECURSIVE LinkHops(_, _, _)
LinkHops(sts, v, fuel) ==
    IF v = -1 THEN 0
    ELSE IF fuel = 0 \/ v \notin DOMAIN sts THEN -1
    ELSE LET rest == LinkHops(sts, sts[v].link, fuel - 1)
         IN  IF rest = -1 THEN -1 ELSE rest + 1

\* the step is an extend call (the only call that lengthens built)
IsExtendStep == built' # built

\* the states on the suffix-link chain from p, up to the first one whose
\* ch-transition is missing or is not q
RECURSIVE Redirected(_, _, _, _)
Redirected(sts, p, ch, q) ==
    IF p # -1 /\ ch \in DOMAIN sts[p].next /\ sts[p].next[ch] = q
    THEN {p} \cup Redirected(sts, sts[p].link, ch, q)
    ELSE {}

\* the [key, value] of the nodes from node on, following next up to the tail
RECURSIVE ListFrom(_, _, _)
ListFrom(nodes, node, fuel) ==
    IF node = TailNode \/ node \notin DOMAIN nodes \/ fuel = 0 THEN <<>>
    ELSE <<[key |-> nodes[node].key, value |-> nodes[node].value]>>
         \o ListFrom(nodes, nodes[node].next, fuel - 1)

\* the cache's entries in the order of its linked list, head side first
CacheList(c) == ListFrom(c.nodes, c.nodes[HeadNode].next, Cardinality(DOMAIN c.nodes))

\* the true height of a tree
RECURSIVE TrueHeight(_)
TrueHeight(node) ==
    IF IsNil(node) THEN 0 ELSE 1 + Max(TrueHeight(node.left), TrueHeight(node.right))

RECURSIVE Keys(_)
Keys(node) == IF IsNil(node) THEN {} ELSE {node.key} \cup Keys(node.left) \cup Keys(node.right)

\* every node: balance factor in {-1, 0, 1}
RECURSIVE Balanced(_)
Balanced(node) ==
    IsNil(node) \/
        /\ TrueHeight(node.left) - TrueHeight(node.right) \in {-1, 0, 1}
        /\ Balanced(node.left)
        /\ Balanced(node.right)

\* every node: the stored height is the true height
RECURSIVE HeightsTrue(_)
HeightsTrue(node) ==
    IsNil(node) \/
        /\ node.height = TrueHeight(node)
        /\ HeightsTrue(node.left)
        /\ HeightsTrue(node.right)

\* every node: smaller keys on the left, keys not smaller on the right
RECURSIVE BstOrdered(_)
BstOrdered(node) ==
    IsNil(node) \/
        /\ \A k \in Keys(node.left) : k < node.key
        /\ \A k \in Keys(node.right) : k >= node.key
        /\ BstOrdered(node.left)
        /\ BstOrdered(node.right)


\* the root above i, found by climbing parent pointers without changing them
RECURSIVE RootOf(_, _)
RootOf(d, i) == IF d.parent[i] = i THEN i ELSE RootOf(d, d.parent[i])

\* the partition a DSU object stands for, as the set of related pairs
PartitionOf(d) ==
    {p \in (DOMAIN d.parent) \X (DOMAIN d.parent) : RootOf(d, p[1]) = RootOf(d, p[2])}


\* how often key k is stored in a list
Occurrences(list, k) == Cardinality({i \in DOMAIN list : list[i] = k})

\* the smallest key stored in a non-empty list
Smallest(list) == CHOOSE k \in {list[i] : i \in DOMAIN list} :
                      \A i \in DOMAIN list : k <= list[i]


\* the positions (from 0) at which pattern occurs in text
OccurrencesOf(text, pattern) ==
    {i \in 0..(Len(text) - Len(pattern)) :
        SubSeq(text, i + 1, i + Len(pattern)) = pattern}

----------------------------------------------------------------------------
(* Properties *)

\* C1: after every extend call, every substring of the string built so far is
\* walked from state 0 symbol by symbol without missing a transition.
C1_SubstringMembership ==
    \A w \in Substrings(built) : WalkEnd(states, w) # -1

C1_Witness ==
    /\ call.op = "extend"
    /\ built = Abacaba
    /\ WalkEnd(states, <<"b", "a", "c", "a", "b">>) \in DOMAIN states \ {0}

\* C2: a string no longer than the built string whose walk from state 0 never
\* misses a transition is a substring of the built string (a non-substring is
\* rejected before it is fully consumed).
C2_NonSubstringRejection ==
    /\ \A w \in Recognised(states, Len(built)) : IsSubstring(w, built)
    /\ \A w \in Strs(Min(Len(built), MaxN)) :
           ~IsSubstring(w, built) => WalkEnd(states, w) = -1

C2_Witness ==
    /\ call.op = "extend"
    /\ built = Abacaba
    /\ ~IsSubstring(<<"a", "b", "c">>, built)
    /\ WalkEnd(states, <<"a", "b">>) # -1
    /\ WalkEnd(states, <<"a", "b", "c">>) = -1

\* C3: longest_common_substring(t) returns the length of the longest string
\* that is a substring of both the built string and t, as a scan over all
\* substring pairs finds it; 'abacaba'/'acab' gives 4, 'abacaba'/'xyz' gives 0
\* and 'banana'/'ananas' gives 5.
C3_LcsEqualsBruteForce ==
    call.op = "lcs" =>
        /\ call.best = BruteLCS(built, call.t)
        /\ (built = Abacaba /\ call.t = Acab) => call.best = 4
        /\ (built = Abacaba /\ call.t = Xyz) => call.best = 0
        /\ (built = Banana /\ call.t = Ananas) => call.best = 5

C3_Witness ==
    /\ call.op = "lcs"
    /\ built = Banana
    /\ call.t = Ananas
    /\ call.best = 5

\* C4: two substrings of the built string end their walks in the same state
\* exactly when they have the same set of end positions; every state is the
\* end of some substring's walk, and there are as many states as there are
\* distinct sets of end positions.
C4_EndposClasses ==
    LET subs == Substrings(built)
    IN  /\ \A u \in subs : \A w \in subs :
               (WalkEnd(states, u) = WalkEnd(states, w)) <=> (Endpos(u, built) = Endpos(w, built))
        /\ \A v \in DOMAIN states : \E w \in subs : WalkEnd(states, w) = v
        /\ NumStates(states) = Cardinality({Endpos(w, built) : w \in subs})

C4_Witness ==
    /\ call.op = "extend"
    /\ built = Banana
    /\ WalkEnd(states, <<"n", "a">>) = WalkEnd(states, <<"a", "n", "a">>)
    /\ WalkEnd(states, <<"a">>) # WalkEnd(states, <<"n", "a">>)
    /\ NumStates(states) > Len(built) + 1

\* C5: once at least two symbols have been processed, the number of states,
\* the initial one included, is at most 2n - 1 for n symbols.
C5_StateCountBound ==
    Len(built) >= 2 => NumStates(states) <= 2 * Len(built) - 1

C5_Witness ==
    /\ call.op = "extend"
    /\ Len(built) = MaxN
    /\ NumStates(states) = 2 * Len(built) - 1

C7_SuffixLinkLength ==
    \A v \in DOMAIN states \ {0} :
        /\ states[v].link # -1
        /\ states[v].link \in DOMAIN states
        /\ states[states[v].link].len < states[v].len

C7_Witness ==
    /\ call.op = "extend"
    /\ Len(built) = MaxN
    /\ \E v \in DOMAIN states : states[v].link # -1 /\ states[v].link # 0
    /\ NumStates(states) > Len(built) + 1

\* C8: state 0 always has len 0 and link -1, and no extend call that can
\* follow takes state 0 as its split target q.
C8_InitialState ==
    /\ states[0].len = 0
    /\ states[0].link = -1
    /\ \A ch \in BuildSymbols : SplitTarget(states, last, ch) # 0

C8_Witness ==
    /\ call.op = "extend"
    /\ built = Banana
    /\ \E ch \in BuildSymbols : SplitTarget(states, last, ch) > 0
    /\ states[0].next # EmptyMap

\* C9: every transition leads to a state of strictly greater len.
C9_TransitionMonotone ==
    \A p \in DOMAIN states : \A c \in DOMAIN states[p].next :
        /\ states[p].next[c] \in DOMAIN states
        /\ states[states[p].next[c]].len > states[p].len

C9_Witness ==
    /\ call.op = "extend"
    /\ Len(built) = MaxN
    /\ \E p \in DOMAIN states : \E c \in DOMAIN states[p].next :
           states[states[p].next[c]].len > states[p].len + 1

\* C10: the value longest_common_substring returns is a natural number at
\* most min(len(s), len(t)); it is 0 when t is empty or nothing was built, and
\* it is 4 for 'aaaa' queried with 'aaaaaaaa'.
C10_LcsResultBounds ==
    call.op = "lcs" =>
        /\ call.best \in Nat
        /\ call.best <= Min(Len(built), Len(call.t))
        /\ (call.t = <<>> \/ built = <<>>) => call.best = 0
        /\ (built = Aaaa /\ call.t = Aaaaaaaa) => call.best = 4

C10_Witness ==
    /\ call.op = "lcs"
    /\ built = Aaaa
    /\ call.t = Aaaaaaaa
    /\ call.best = 4

\* C11: every extend call that can follow a reachable state, and every
\* longest_common_substring call on a reachable automaton, runs to its end:
\* each state index it dereferences is inside the states list and each lookup
\* next[ch] is made on a state that has a transition on ch; this includes
\* query symbols that occur nowhere in the built string.  (A query leaves the
\* automaton as it is, so the queries are tried on the state each automaton
\* is first reached in, and the query a state records is tried on that state.)
C11_Totality ==
    /\ \A ch \in BuildSymbols \cup {"x"} : ExtendTotal(states, last, ch)
    /\ call.op = "lcs" => LcsTotal(states, call.t)
    /\ call.op # "lcs" => \A w \in QueryInputs : LcsTotal(states, w)

C11_Witness ==
    /\ call.op = "lcs"
    /\ built = Abacaba
    /\ call.t = Xyz
    /\ call.best = 0
    /\ LcsTotal(states, Xyz)
    /\ ExtendTotal(states, last, "x")

\* C12: extend(c) appends one or two states and removes none; a state that
\* existed before keeps its len and all its transitions, those on symbols
\* other than c unchanged; an existing c-transition changes only from q (the
\* target of the stop state's c-transition) to the new clone; and no
\* pre-existing state other than q has its link changed.
C12_Frame ==
    LET n == NumStates(states)
        c == call'.ch
        p == StopState(states, last, c)
        q == IF p = -1 THEN -1 ELSE states[p].next[c]
    IN  /\ NumStates(states') \in {n + 1, n + 2}
        /\ DOMAIN states' = 0..(NumStates(states') - 1)
        /\ \A v \in DOMAIN states :
               /\ states'[v].len = states[v].len
               /\ DOMAIN states[v].next \subseteq DOMAIN states'[v].next
               /\ DOMAIN states'[v].next \subseteq DOMAIN states[v].next \cup {c}
               /\ \A d \in DOMAIN states[v].next \ {c} :
                      states'[v].next[d] = states[v].next[d]
               /\ (c \in DOMAIN states[v].next /\ states'[v].next[c] # states[v].next[c]) =>
                      /\ states[v].next[c] = q
                      /\ states'[v].next[c] = n + 1
                      /\ NumStates(states') = n + 2
               /\ states'[v].link # states[v].link => v = q

C12_ExtendFrame == [][IsExtendStep => C12_Frame]_vars

C12_Witness ==
    /\ call.op = "extend"
    /\ built = <<"a", "b", "c", "b">>
    /\ NumStates(states) = 6
    /\ states[0].next["b"] = 5
    /\ states[2].link = 5
    /\ states[1].next["b"] = 2

\* C19: the automaton equals SuffixAutomaton(s) for the string s extended so
\* far, which for the empty string is state 0 alone with last = 0; an extend
\* call sets last to the index of the state it creates first and gives that
\* state the len of the previous last plus one; so states[last].len is the
\* number of symbols processed and no state has a greater len.
C19_State ==
    /\ [states |-> states, last |-> last] = Construct(built)
    /\ built = <<>> => (DOMAIN states = {0} /\ last = 0 /\ states[0] = NewState)
    /\ states[last].len = Len(built)
    /\ \A v \in DOMAIN states : states[v].len <= states[last].len

C19_Step ==
    /\ last' = NumStates(states)
    /\ states'[last'].len = states[last].len + 1

C19_ConstructionAndLast == [](C19_State) /\ [][IsExtendStep => C19_Step]_vars

C19_Witness ==
    /\ call.op = "extend"
    /\ built = <<"a", "b", "b">>
    /\ last = 3
    /\ NumStates(states) = 5
    /\ states[last].len = 3
    /\ Construct(built).last = 3

\* C20: in extend(c), with p the first state on the suffix-link chain from
\* the old last that has a c-transition and q its target: when there is no
\* such p one state is appended and cur.link = 0; when q.len = p.len + 1 one
\* state is appended, cur.link = q and no existing transition changes; a
\* second state is appended exactly when p exists and q.len # p.len + 1; and
\* every state the walk visits before p gets a c-transition to cur.
C20_Step ==
    LET n == NumStates(states)
        c == call'.ch
        p == StopState(states, last, c)
        q == IF p = -1 THEN -1 ELSE states[p].next[c]
    IN  /\ p = -1 =>
               /\ NumStates(states') = n + 1
               /\ states'[n].link = 0
        /\ (p # -1 /\ states[q].len = states[p].len + 1) =>
               /\ NumStates(states') = n + 1
               /\ states'[n].link = q
               /\ \A v \in DOMAIN states : \A d \in DOMAIN states[v].next :
                      states'[v].next[d] = states[v].next[d]
        /\ NumStates(states') = n + 2 <=> (p # -1 /\ states[q].len # states[p].len + 1)
        /\ NumStates(states') \in {n + 1, n + 2}
        /\ \A v \in Visited(states, last, c) :
               /\ c \notin DOMAIN states[v].next
               /\ c \in DOMAIN states'[v].next
               /\ states'[v].next[c] = n

C20_BranchSelection == [][IsExtendStep => C20_Step]_vars

C20_Witness ==
    /\ call.op = "extend"
    /\ built = <<"a", "a">>
    /\ NumStates(states) = 3
    /\ states[2].link = 1
    /\ states[1].next["a"] = 2
    /\ states[0].next["a"] = 1

\* C13: with capacity >= 1 the cache behaves like the reference recency list:
\* the cached keys and their order of use are those of the reference, so
\* get(k) returns the value last put for k when k is cached and -1 otherwise,
\* a successful get and every put make the key the most recently used, and a
\* put of a new key into a full cache evicts the least recently used key.
C13_State ==
    /\ CacheList(cache) = lruRef
    /\ DOMAIN cache.map = {lruRef[i].key : i \in 1..Len(lruRef)}
    /\ Len(lruRef) <= cache.capacity

C13_Step ==
    /\ ~lruCall'.raised
    /\ lruCall'.op = "get" =>
           /\ lruCall'.ret = RefGet(lruRef, lruCall'.key).ret
           /\ lruCall'.ret # -1 => CacheList(cache')[1].key = lruCall'.key
           /\ lruCall'.ret = -1 => cache' = cache
    /\ lruCall'.op = "put" =>
           /\ CacheList(cache')[1] = [key |-> lruCall'.key, value |-> lruCall'.value]
           /\ (lruCall'.key \notin DOMAIN cache.map /\ Len(lruRef) >= cache.capacity) =>
                  DOMAIN cache'.map =
                      (DOMAIN cache.map \ {lruRef[Len(lruRef)].key}) \cup {lruCall'.key}

C13_LruOrder ==
    /\ [](cache.capacity >= 1 => C13_State)
    /\ [][cache.capacity >= 1 => C13_Step]_vars

\* the module's doctest: LRUCache(2), put(1,1), put(2,2), get(1), put(3,3), get(2) -> -1
C13_Witness ==
    /\ cache.capacity = 2
    /\ lruCall = [op |-> "get", key |-> 2, ret |-> -1, raised |-> FALSE]
    /\ lruRef = <<[key |-> 3, value |-> 3], [key |-> 1, value |-> 1]>>
    /\ CacheList(cache) = lruRef

\* C14: after any sequence of insert calls, each on the root the previous one
\* returned, every node has a balance factor in {-1, 0, 1}, the stored
\* heights are the true heights and the keys are in search-tree order.
C14_AvlBalanced ==
    /\ Balanced(avlRoot)
    /\ HeightsTrue(avlRoot)
    /\ BstOrdered(avlRoot)

\* C15: for every non-empty text, decoding the encoded text with the tree
\* built from the text gives the text back, and the codes are non-empty and
\* prefix-free.
C15_HuffmanLossless ==
    (huff.op = "decode" /\ huff.text # <<>>) =>
        /\ ~huff.raised
        /\ huff.decoded = huff.text
        /\ \A c \in DOMAIN huff.codes : huff.codes[c] # <<>>
        /\ \A c \in DOMAIN huff.codes : \A d \in DOMAIN huff.codes \ {c} :
               ~IsPrefix(huff.codes[c], huff.codes[d])

\* C16: connected(i, j) is true exactly when i and j are related by the
\* closure of the pairs passed to union so far (for the call made and for
\* every call that could be made next); union(i, j) returns True exactly
\* when i and j were in different sets before the call and otherwise leaves
\* the partition alone; find and connected never change the partition.
C16_State ==
    /\ dsuCall.op = "connected" => (dsuCall.result <=> <<dsuCall.i, dsuCall.j>> \in dsuRef)
    /\ dsuCall.op = "find" => dsuCall.result = RootOf(dsu, dsuCall.i)
    /\ \A i \in Elems, j \in Elems : ConnectedOp(dsu, i, j).result <=> <<i, j>> \in dsuRef
    /\ PartitionOf(dsu) = dsuRef

C16_Step ==
    /\ dsuCall'.op = "union" =>
           /\ dsuCall'.result <=> <<dsuCall'.i, dsuCall'.j>> \notin PartitionOf(dsu)
           /\ ~dsuCall'.result => PartitionOf(dsu') = PartitionOf(dsu)
    /\ dsuCall'.op \in {"find", "connected"} => PartitionOf(dsu') = PartitionOf(dsu)

C16_PartitionSemantics == []C16_State /\ [][C16_Step]_vars

\* connected answered True for two distinct elements neither of which is the
\* parent of the other, in a tree that has been deep enough to compress
C16_Witness ==
    /\ dsuCall.op = "connected" /\ dsuCall.result /\ dsuCall.i # dsuCall.j
    /\ dsu.parent[dsuCall.i] # dsuCall.j /\ dsu.parent[dsuCall.j] # dsuCall.i
    /\ \E r \in Elems : dsu.rank[r] = 2

\* C17: after any sequence of insert and extract_min calls the array has
\* heap[(i-1)//2] <= heap[i] for every i > 0; get_min returns the smallest
\* stored key and leaves the heap alone; extract_min returns the smallest
\* stored key and removes exactly one occurrence of it, so that successive
\* extract_min calls return keys in non-decreasing order; on an empty heap
\* both return None and leave it empty.
C17_State ==
    /\ \A i \in 1..(Len(minHeap) - 1) : minHeap[((i - 1) \div 2) + 1] <= minHeap[i + 1]
    /\ GetMin(minHeap) = IF minHeap = <<>> THEN None ELSE Smallest(minHeap)

C17_Step ==
    /\ heapCall'.op = "get_min" =>
           /\ minHeap' = minHeap
           /\ heapCall'.result = IF minHeap = <<>> THEN None ELSE Smallest(minHeap)
    /\ heapCall'.op = "extract_min" =>
           IF minHeap = <<>>
           THEN heapCall'.result = None /\ minHeap' = <<>>
           ELSE /\ heapCall'.result = Smallest(minHeap)
                /\ \A k \in 1..MaxHeapKey :
                       Occurrences(minHeap', k) =
                           Occurrences(minHeap, k) - (IF k = heapCall'.result THEN 1 ELSE 0)
                /\ (heapCall.op = "extract_min" /\ heapCall.result # None) =>
                       heapCall.result <= heapCall'.result
    /\ heapCall'.op = "insert" =>
           \A k \in 1..MaxHeapKey :
               Occurrences(minHeap', k) =
                   Occurrences(minHeap, k) + (IF k = heapCall'.key THEN 1 ELSE 0)

C17_HeapSemantics == []C17_State /\ [][C17_Step]_vars

\* extract_min took one of two equal smallest keys out of a full heap whose
\* new root had to sink two levels
C17_Witness ==
    /\ heapCall.op = "extract_min" /\ heapCall.result = 1
    /\ minHeap = <<1, 2, 3, 3>>

\* C18: for a non-empty pattern the list returned holds, in increasing
\* order, every index at which the pattern occurs in the text, overlapping
\* occurrences included, and no other index.
C18_AllOccurrences ==
    (bmh.op = "search" /\ bmh.pattern # <<>>) =>
        /\ {bmh.res[k] : k \in DOMAIN bmh.res} = OccurrencesOf(bmh.text, bmh.pattern)
        /\ \A k \in 1..(Len(bmh.res) - 1) : bmh.res[k] < bmh.res[k + 1]

\* C21: when extend(c) splits, with p the stop state and q the target of its
\* c-transition: at the end of the call the clone has len p.len + 1, the
\* transitions q had when the clone was made and the link q had before the
\* call; q and cur are linked to the clone; and the states whose c-transition
\* leads to the clone are exactly those on the unbroken run of the suffix-link
\* chain from p whose c-transition led to q, the others keeping theirs.
C21_Step ==
    LET n == NumStates(states)
        c == call'.ch
        p == StopState(states, last, c)
        q == IF p = -1 THEN -1 ELSE states[p].next[c]
        cur == n
        clone == n + 1
        qNextThen == IF q \in Visited(states, last, c)
                     THEN [d \in DOMAIN states[q].next \cup {c} |->
                              IF d = c THEN cur ELSE states[q].next[d]]
                     ELSE states[q].next
    IN  (p # -1 /\ states[q].len # states[p].len + 1) =>
            /\ NumStates(states') = n + 2
            /\ states'[clone].len = states[p].len + 1
            /\ states'[clone].next = qNextThen
            /\ states'[clone].link = states[q].link
            /\ states'[q].link = clone
            /\ states'[cur].link = clone
            /\ \A v \in DOMAIN states' :
                   (c \in DOMAIN states'[v].next /\ states'[v].next[c] = clone)
                       <=> v \in Redirected(states, p, c, q)
            /\ \A v \in DOMAIN states \ Redirected(states, p, c, q) :
                   c \in DOMAIN states[v].next => states'[v].next[c] = states[v].next[c]

C21_SplitPostcondition == [][IsExtendStep => C21_Step]_vars

\* 'bana' extended by 'n': p is the state of 'a' (5), q the state of 'ban'
\* (3); the clone (7, len 2) takes over the n-transitions of 5 and of state 0
C21_Witness ==
    /\ call.op = "extend"
    /\ built = SubSeq(Banana, 1, 5)
    /\ NumStates(states) = 8
    /\ states[7] = [next |-> [d \in {"a"} |-> 4], link |-> 0, len |-> 2]
    /\ states[3].link = 7 /\ states[6].link = 7
    /\ states[0].next["n"] = 7 /\ states[5].next["n"] = 7
    /\ states[2].next["n"] = 3

\* C23: for every state v, states[v].len is the length of the longest string
\* whose walk from state 0 ends in v, and only one string of that length
\* ends there.
C23_MeaningOfLen ==
    \A v \in DOMAIN states :
        LET ends == StringsOf(states, built, v)
        IN  /\ ends # {}
            /\ \A w \in ends : Len(w) <= states[v].len
            /\ Cardinality({w \in ends : Len(w) = states[v].len}) = 1

\* in 'banana' the walks of 'na' and 'ana' end in one state, whose len is 3
C23_Witness ==
    /\ call.op = "extend"
    /\ built = Banana
    /\ WalkEnd(states, <<"n", "a">>) = WalkEnd(states, <<"a", "n", "a">>)
    /\ states[WalkEnd(states, <<"n", "a">>)].len = 3
    /\ Cardinality(StringsOf(states, built, WalkEnd(states, <<"n", "a">>))) = 2

\* C24: for every non-initial state v with longest string w, the strings
\* whose walk ends in v are exactly the suffixes of w longer than the len of
\* v's link and no longer than v's len, and the suffix of w that has the
\* link's len ends its walk in the link; so the sum over the non-initial
\* states of len minus the link's len is the number of distinct non-empty
\* substrings of the built string.
C24_MeaningOfLink ==
    /\ \A v \in DOMAIN states \ {0} :
           LET w == LongestOf(states, built, v)
               lk == states[v].link
           IN  /\ lk \in DOMAIN states
               /\ StringsOf(states, built, v) =
                      {Suffix(w, k) : k \in (states[lk].len + 1)..states[v].len}
               /\ WalkEnd(states, Suffix(w, states[lk].len)) = lk
    /\ LinkGaps(states, NumStates(states) - 1) = Cardinality(Substrings(built) \ {<<>>})

\* in 'banana' the state of 'ana' and 'na' is linked to the state of 'a',
\* and the 15 distinct substrings are counted by the links
C24_Witness ==
    /\ call.op = "extend"
    /\ built = Banana
    /\ LET v == WalkEnd(states, <<"a", "n", "a">>)
       IN  /\ states[v].link = WalkEnd(states, <<"a">>)
           /\ states[v].link # 0
           /\ StringsOf(states, built, v) = {<<"a", "n", "a">>, <<"n", "a">>}
    /\ LinkGaps(states, NumStates(states) - 1) = 15

\* C25: in longest_common_substring(t), after each symbol t[i] has been
\* processed, l is the length of the longest suffix of t[0..i] that is a
\* substring of the built string and v is the state in which the walk of
\* that suffix ends (state 0 with l = 0 when no non-empty suffix matches);
\* when v is not state 0 the len of v's link is below l and l is at most the
\* len of v.  (A query leaves the automaton as it is, so the queries are
\* tried on the state each automaton is first reached in, and the query a
\* state records is tried on that state.)
C25_Query(w) ==
    \A i \in 1..Len(w) :
        LET r == LcsAfter(states, w, i)
            k == LongestSuffixIn(SubSeq(w, 1, i), built)
        IN  /\ r.l = k
            /\ r.v = WalkEnd(states, Suffix(SubSeq(w, 1, i), k))
            /\ k = 0 => r.v = 0
            /\ r.v # 0 =>
                   /\ states[states[r.v].link].len < r.l
                   /\ r.l <= states[r.v].len

C25_WalkInvariant ==
    /\ call.op = "lcs" => C25_Query(call.t)
    /\ call.op # "lcs" => \A w \in QueryInputs : C25_Query(w)

\* 'abc' queried with 'abb': the third symbol makes the loop follow a link to
\* state 0 (l reset to 0, then 1); the second symbol did not run the loop
C25_Witness ==
    /\ call.op = "lcs"
    /\ built = <<"a", "b", "c">>
    /\ call.t = <<"a", "b", "b">>
    /\ LcsAfter(states, call.t, 2) = [v |-> 2, l |-> 2, best |-> 2]
    /\ LcsLinks(states, 2, 2, "b") = [v |-> 0, l |-> 0]
    /\ LcsAfter(states, call.t, 3) = [v |-> 2, l |-> 1, best |-> 2]

\* C26: a longest_common_substring call leaves the states list and last as
\* they are; however extend and query calls are interleaved, a query returns
\* the value for exactly the string extended so far (the value a freshly
\* constructed automaton of that string gives, and the value a scan gives);
\* and asking the recorded query again in the same state gives the recorded
\* value.
C26_State ==
    call.op = "lcs" =>
        /\ call.best = LongestCommonSubstring(states, call.t)
        /\ call.best = LongestCommonSubstring(Construct(built).states, call.t)
        /\ call.best = BruteLCS(built, call.t)

C26_Step ==
    call'.op = "lcs" =>
        /\ states' = states
        /\ last' = last
        /\ built' = built

C27_TerminalChain ==
    /\ last = WalkEnd(states, built)
    /\ LinkChain(states, last, NumStates(states)) =
           {WalkEnd(states, Suffix(built, k)) : k \in 0..Len(built)}
    /\ 0 \in LinkChain(states, last, NumStates(states))

\* 'abacaba': the suffixes end in last, in the state of 'aba', in the state
\* of 'a' and in state 0
C27_Witness ==
    /\ call.op = "extend"
    /\ built = Abacaba
    /\ LinkChain(states, last, NumStates(states)) =
           {last, WalkEnd(states, <<"a", "b", "a">>), WalkEnd(states, <<"a">>), 0}
    /\ Cardinality(LinkChain(states, last, NumStates(states))) = 4

\* C28: following suffix links from any state reaches -1 within len + 1
\* links; so in every extend call that can follow, the loop of the first
\* walk and the loop of the redirection exit, and in every query the link
\* loop exits for every symbol, each after no more iterations than there are
\* links from the state it starts in to -1.  (Queries are tried as in C25.)
C28_Hops == \A v \in DOMAIN states :
                /\ LinkHops(states, v, NumStates(states) + 1) >= 1
                /\ LinkHops(states, v, NumStates(states) + 1) <= states[v].len + 1

C28_Extend(ch) ==
    LET n == NumStates(states)
        s1 == AppendState(states)
        s2 == [s1 EXCEPT ![n].len = CurLen(s1, last)]
        it1 == Walk1Iters(s2, last, ch, n, n + 3)
        w == Walk1(s2, last, ch, n)
        q == IF w.p = -1 THEN -1 ELSE w.states[w.p].next[ch]
        it2 == IF w.p = -1 \/ NoSplit(w.states, w.p, q) THEN 0
               ELSE Walk2Iters(AppendState(w.states), w.p, ch, q, n + 1, n + 3)
    IN  /\ it1 >= 0 /\ it1 <= LinkHops(states, last, n + 1)
        /\ it2 >= 0 /\ it2 <= LinkHops(states, w.p, n + 1)

C28_Query(w) ==
    \A i \in 1..Len(w) :
        LET v == LcsAfter(states, w, i - 1).v
            it == LcsLinksIters(states, v, w[i], NumStates(states) + 3)
        IN  it >= 0 /\ it <= LinkHops(states, v, NumStates(states) + 1)

C28_Termination ==
    /\ C28_Hops
    /\ \A ch \in BuildSymbols \cup {"x"} : C28_Extend(ch)
    /\ call.op = "lcs" => C28_Query(call.t)
    /\ call.op # "lcs" => \A w \in QueryInputs : C28_Query(w)

\* 'aaaa': last is len + 1 = 5 links away from -1, extend('b') would run its
\* first loop 5 times, and the query 'aab' runs the link loop 3 times on 'b'
C28_Witness ==
    /\ call.op = "lcs"
    /\ built = Aaaa
    /\ call.t = <<"a", "a", "b">>
    /\ LinkHops(states, last, NumStates(states) + 1) = 5
    /\ Walk1Iters(AppendState(states), last, "b", NumStates(states), NumStates(states) + 3) = 5
    /\ LcsLinksIters(states, LcsAfter(states, call.t, 2).v, "b", NumStates(states) + 3) = 3

\* C29: for every capacity >= 0 and every sequence of get and put calls: no
\* more keys are stored than the capacity; the keys of the map are exactly
\* the keys of the nodes linked between the two sentinels, each once, with
\* next and prev consistent and the map pointing at the node of its key; an
\* eviction removes a real entry, never a sentinel, and the call completes;
\* get of a key that is not cached returns -1 and leaves the cache as it is.
C29_State ==
    LET list == CacheList(cache)
        linked == {cache.nodes[HeadNode].next} \cup
                  {cache.nodes[cache.map[k]].next : k \in DOMAIN cache.map}
    IN  /\ Cardinality(DOMAIN cache.map) <= cache.capacity
        /\ DOMAIN cache.map = {list[i].key : i \in 1..Len(list)}
        /\ Len(list) = Cardinality(DOMAIN cache.map)
        /\ \A k \in DOMAIN cache.map : cache.nodes[cache.map[k]].key = k
        /\ \A i \in linked : i \in DOMAIN cache.nodes
        /\ \A i \in {HeadNode} \cup {cache.map[k] : k \in DOMAIN cache.map} :
               cache.nodes[cache.nodes[i].next].prev = i
        /\ cache.nodes[HeadNode].prev = None /\ cache.nodes[TailNode].next = None

C29_Step ==
    /\ (lruCall'.op = "put" /\ lruCall'.key \notin DOMAIN cache.map
            /\ Cardinality(DOMAIN cache.map) >= cache.capacity) =>
           /\ cache.nodes[TailNode].prev \notin {HeadNode, TailNode}
           /\ ~lruCall'.raised
           /\ cache.nodes[cache.nodes[TailNode].prev].key \notin DOMAIN cache'.map
    /\ (lruCall'.op = "get" /\ lruCall'.key \notin DOMAIN cache.map) =>
           /\ lruCall'.ret = -1
           /\ cache' = cache

C29_LruStructure == []C29_State /\ [][C29_Step]_vars

\* the same for the capacities >= 1 only
C29_PositiveCapacity ==
    [](cache.capacity >= 1 => C29_State) /\ [][cache.capacity >= 1 => C29_Step]_vars

\* C22: the dict given to a clone at line 94 is a new dict with the contents
\* q's dict has at that moment: no two states ever refer to the same dict,
\* and for every split (q, clone) made so far, a statement that adds or
\* rewrites a transition of q (lines 83 and 98 with p = q) leaves the
\* contents of the clone's dict as they were, and one that adds or rewrites
\* a transition of the clone leaves the contents of q's dict as they were.
C22_State ==
    /\ \A u \in DOMAIN auto.states : \A v \in DOMAIN auto.states \ {u} :
           auto.states[u].next # auto.states[v].next
    /\ \A t \in Threads : thread[t].pc = "l95" =>
           /\ <<thread[t].q, thread[t].clone>> \in hist.pairs
           /\ NextOf(auto, thread[t].clone) = NextOf(auto, thread[t].q)

C22_Writes(t, v) == thread[t].pc \in {"l83", "l98"} /\ thread'[t].pc \in {"l84", "l99"}
                    /\ thread[t].p = v

C22_Step ==
    \A pair \in hist.pairs : \A t \in Threads :
        /\ C22_Writes(t, pair[1]) =>
               /\ NextOf(auto', pair[1]) # NextOf(auto, pair[1])
               /\ NextOf(auto', pair[2]) = NextOf(auto, pair[2])
        /\ C22_Writes(t, pair[2]) =>
               /\ NextOf(auto', pair[2]) # NextOf(auto, pair[2])
               /\ NextOf(auto', pair[1]) = NextOf(auto, pair[1])

C22_CloneIndependence == []C22_State /\ [][C22_Step]_vars

\* 'abb' splits state 2 into the clone 4, both with the one transition
\* b -> 3; the fourth call adds a -> 5 to the clone's dict only, and the sixth
\* call (of 'abbaba') adds a -> 7 to q's dict only
C22_Witness ==
    /\ hist.order = <<"a", "b", "b", "a", "b", "a">>
    /\ hist.pairs = {<<2, 4>>}
    /\ thread[1].pc = "l84" /\ thread[1].p = 2
    /\ NextOf(auto, 2) = [x \in {"a", "b"} |-> IF x = "a" THEN 7 ELSE 3]
    /\ NextOf(auto, 4) = [x \in {"a", "b"} |-> IF x = "a" THEN 5 ELSE 3]

\* the invariants of the automaton of the string w: state 0 is the only state
\* with len 0 and link -1, every other link leads to a state of smaller len,
\* last is where the walk of w ends, and the strings recognised are exactly
\* the substrings of w
AutomatonInvariants(sts, lst, w) ==
    /\ sts[0].len = 0 /\ sts[0].link = -1
    /\ \A v \in DOMAIN sts \ {0} :
           /\ sts[v].len >= 1
           /\ sts[v].link \in DOMAIN sts
           /\ sts[sts[v].link].len < sts[v].len
    /\ lst = WalkEnd(sts, w)
    /\ Recognised(sts, Len(w) + 1) = Substrings(w)

\* both calls have returned
BothReturned == \A t \in Threads : thread[t].pc = "idle" /\ thread[t].left = 0

\* some state other than state 0 is as State() made it
LeftUninitialised ==
    \E v \in DOMAIN auto.states \ {0} : auto.states[v].len = 0 /\ auto.states[v].link = -1

\* C30: two extend calls on the same automaton.  When they run one after the
\* other, in either order, the automaton afterwards is the one of the string
\* built before followed by the two symbols in the order of the calls, and it
\* has the invariants.  When their statements interleave this is lost: if
\* both calls read the same cur, a state other than state 0 is left with
\* len 0 and link -1 (such an outcome exists: C30_Witness).
C30_Serial ==
    ((\A t \in Threads : thread[t].pc = "idle") /\ hist.serial) =>
        LET w == hist.base \o hist.order
        IN  /\ Value(auto) = Construct(w).states
            /\ auto.last = Construct(w).last
            /\ AutomatonInvariants(Value(auto), auto.last, w)

C30_SameCur ==
    (BothReturned /\ thread[1].cur = thread[2].cur) =>
        /\ ~hist.serial
        /\ LeftUninitialised
        /\ ~AutomatonInvariants(Value(auto), auto.last, hist.base \o hist.order)

C30_ConcurrentExtend == C30_Serial /\ C30_SameCur

\* after 'ab', extend('a') and extend('b') interleaved: both read cur = 3,
\* a state is left uninitialised, and what the automaton recognises is the
\* set of substrings of neither 'abab' nor 'abba'
C30_Witness ==
    /\ BothReturned
    /\ hist.base = <<"a", "b">>
    /\ hist.order = <<"a", "b">>
    /\ ~hist.serial
    /\ thread[1].cur = 3 /\ thread[2].cur = 3
    /\ LeftUninitialised
    /\ Recognised(Value(auto), 5) # Substrings(<<"a", "b", "a", "b">>)
    /\ Recognised(Value(auto), 5) # Substrings(<<"a", "b", "b", "a">>)

====
